---- MODULE Spec2Model ----
(***************************************************************************)
(* React Code Analyzer (src/parse_web/src/App.jsx).                        *)
(*                                                                         *)
(* Spec       one call analyzeCode(code, filename) followed by             *)
(*            calculateQualityScore(result), as processFiles runs them for *)
(*            one file.  The syntax tree is an input: the walk draws it    *)
(*            node by node, in the pre-order in which traverse visits it.  *)
(* SpecScore  the maintainability index and calculateQualityScore applied  *)
(*            to records whose counters are drawn from bounded ranges.     *)
(* SpecFiles  the loop of processFiles over the files of an upload and the *)
(*            summary it builds from the scored records; the files are     *)
(*            whole trees, walked by traverse as a recursive function.     *)
(* SpecApp    the App component: an upload starts processFiles, which      *)
(*            reads the files and archives, analyses the collected files,  *)
(*            sets results and starts the timer that shows the results     *)
(*            screen; resetApp returns to the upload screen.  One action   *)
(*            is the code between two awaits.                              *)
(***************************************************************************)
EXTENDS Integers, Sequences, FiniteSets, TLC

VARIABLES
    pc,                   \* position in analyzeCode / processFiles
    code,                 \* the input: [lines, vocab]
    stack,                \* the activations of traverse, outermost first
    currentFunction,      \* let currentFunction (App.jsx:53)
    analysis,             \* const analysis (App.jsx:24)
    functionDependencies, \* const functionDependencies (App.jsx:54)
    allDefinedFunctions,  \* const allDefinedFunctions (App.jsx:55)
    functionTypes,        \* const functionTypes (App.jsx:56)
    error,                \* the exception caught at App.jsx:337
    result,               \* what analyzeCode returned, then result.qualityScore
    ghost,                \* history: what the input held so far and whether
                          \* an exception was raised (not program state)
    analysisResults,      \* const analysisResults (App.jsx:1070)
    summary,              \* const summary (App.jsx:1126)
    screen,               \* useState('upload') (App.jsx:1015)
    results,              \* useState(null) (App.jsx:1016)
    progress,             \* useState(0) (App.jsx:1017)
    currentStep,          \* useState('') (App.jsx:1019)
    uploadedFiles,        \* the files of the upload not yet read (App.jsx:1029)
    fileList,             \* const fileList (App.jsx:1027)
    validPaths,           \* const validPaths of the archive being read (1035)
    zipIndex,             \* let i of the loop over validPaths (App.jsx:1048)
    progressLog,          \* the arguments of the calls of setProgress
    timers                \* pending callbacks of setTimeout (App.jsx:1154)

\* the state of one analyzeCode call and of the analysis loop
analysisVars == <<code, stack, currentFunction, analysis, functionDependencies,
                  allDefinedFunctions, functionTypes, error, result, ghost,
                  analysisResults, summary>>

\* the state of the App component and of the reading loop of processFiles
appVars == <<screen, results, progress, currentStep, uploadedFiles, fileList,
             validPaths, zipIndex, progressLog, timers>>

vars == <<pc, analysisVars, appVars>>

----------------------------------------------------------------------------
(* Bounds of the model                                                     *)

\* number of freely drawn nodes of one tree (the Program root and the
\* children a node always has are not counted)
MaxNodes == 4
\* depth at which the engine's call stack is exhausted (RangeError)
StackLimit == 5
\* largest cyclomatic complexity, depth and issue count drawn under SpecScore
MaxCC == 16
MaxDepthDrawn == 16
MaxIssues == 11

----------------------------------------------------------------------------
(* Strings are sequences of characters, so that the regular expressions    *)
(* and startsWith of the source can be computed.                           *)

LowerChars == <<"a","b","c","d","e","f","g","h","i","j","k","l","m",
                "n","o","p","q","r","s","t","u","v","w","x","y","z">>
UpperChars == <<"A","B","C","D","E","F","G","H","I","J","K","L","M",
                "N","O","P","Q","R","S","T","U","V","W","X","Y","Z">>

Range(s) == {s[i] : i \in DOMAIN s}

\* [A-Z]
IsUpperAZ(c) == c \in Range(UpperChars)

\* String.prototype.toUpperCase on one character
toUpperCase(c) ==
    IF c \in Range(LowerChars)
    THEN UpperChars[CHOOSE i \in DOMAIN LowerChars : LowerChars[i] = c]
    ELSE c

\* String.prototype.startsWith
startsWith(s, p) == Len(s) >= Len(p) /\ SubSeq(s, 1, Len(p)) = p

\* undefined / null / '' : the falsy values a name can have
NoName == <<>>

n_Button      == <<"B","u","t","t","o","n">>
n_OnFoo       == <<"O","n","F","o","o">>
n_handleClick == <<"h","a","n","d","l","e","C","l","i","c","k">>
n_onGo        == <<"o","n","G","o">>
n_only        == <<"o","n","l","y">>
n_handle      == <<"h","a","n","d","l","e">>
n_go          == <<"g","o">>
n_fetch       == <<"f","e","t","c","h">>
n_Map         == <<"M","a","p">>
n_useX        == <<"u","s","e","X">>
n_eval        == <<"e","v","a","l">>
n_div         == <<"d","i","v">>
n_setX        == <<"s","e","t","X">>
n_useState    == <<"u","s","e","S","t","a","t","e">>
n_set_up      == <<"s","e","t","_","u","p">>
n_setup       == <<"s","e","t","u","p">>
n_x           == <<"x">>
n_dangerouslySetInnerHTML ==
    <<"d","a","n","g","e","r","o","u","s","l","y",
      "S","e","t","I","n","n","e","r","H","T","M","L">>
n_onClick     == <<"o","n","C","l","i","c","k">>

----------------------------------------------------------------------------
(* Naming rules                                                            *)

\* /^[A-Z]/.test(funcName)
TestComponent(funcName) == Len(funcName) >= 1 /\ IsUpperAZ(funcName[1])

\* variant of TestHandler: /^(handle|on)/
TestHandler_PrefixOnly(funcName) ==
    \/ startsWith(funcName, <<"h","a","n","d","l","e">>)
    \/ startsWith(funcName, <<"o","n">>)

\* /^(handle|on)[A-Z]/.test(funcName)
TestHandler(funcName) ==
    \/ /\ startsWith(funcName, n_handle)
       /\ Len(funcName) > 6
       /\ IsUpperAZ(funcName[7])
    \/ /\ startsWith(funcName, <<"o","n">>)
       /\ Len(funcName) > 2
       /\ IsUpperAZ(funcName[3])

\* the if / else if / else of App.jsx:71-80 and 117-126
ClassifyFunction(funcName) ==
    IF TestComponent(funcName) THEN "component"
    ELSE IF TestHandler(funcName) THEN "handler"
    ELSE "helper"

\* const builtins (App.jsx:197)
builtins == {
    <<"a","l","e","r","t">>,
    <<"c","o","n","s","o","l","e">>,
    <<"s","e","t","T","i","m","e","o","u","t">>,
    <<"s","e","t","I","n","t","e","r","v","a","l">>,
    <<"c","l","e","a","r","T","i","m","e","o","u","t">>,
    <<"c","l","e","a","r","I","n","t","e","r","v","a","l">>,
    <<"p","a","r","s","e","I","n","t">>,
    <<"p","a","r","s","e","F","l","o","a","t">>,
    <<"i","s","N","a","N">>,
    <<"i","s","F","i","n","i","t","e">>,
    <<"e","n","c","o","d","e","U","R","I">>,
    <<"d","e","c","o","d","e","U","R","I">>,
    <<"e","n","c","o","d","e","U","R","I","C","o","m","p","o","n","e","n","t">>,
    <<"d","e","c","o","d","e","U","R","I","C","o","m","p","o","n","e","n","t">>,
    <<"J","S","O","N">>,
    <<"M","a","t","h">>,
    <<"D","a","t","e">>,
    <<"A","r","r","a","y">>,
    <<"O","b","j","e","c","t">>,
    <<"S","t","r","i","n","g">>,
    <<"N","u","m","b","e","r">>,
    <<"B","o","o","l","e","a","n">>,
    <<"S","y","m","b","o","l">>,
    <<"M","a","p">>,
    <<"S","e","t">>,
    <<"W","e","a","k","M","a","p">>,
    <<"W","e","a","k","S","e","t">>,
    <<"P","r","o","m","i","s","e">>,
    <<"f","e","t","c","h">>,
    <<"r","e","q","u","i","r","e">>
}

\* const isHook (App.jsx:205), also the test of App.jsx:190
isHook(calleeName) == startsWith(calleeName, <<"u","s","e">>)

\* const isSetState (App.jsx:206)
isSetState(calleeName) ==
    /\ startsWith(calleeName, <<"s","e","t">>)
    /\ Len(calleeName) > 3
    /\ calleeName[4] = toUpperCase(calleeName[4])

----------------------------------------------------------------------------
(* Syntax-tree nodes, reduced to the fields traverse reads:                *)
(*   type      node.type                                                   *)
(*   name      node.id?.name, node.callee.name (Identifier callee),        *)
(*             node.name?.name, node.openingElement?.name?.name,           *)
(*             node.declaration?.id?.name; NoName when absent              *)
(*   init      node.init?.type     callee    node.callee?.type             *)
(*   operator  node.operator       source    node.source?.value            *)

Node(type, name, init, callee, operator, source) ==
    [type |-> type, name |-> name, init |-> init, callee |-> callee,
     operator |-> operator, source |-> source]

Plain(type) == Node(type, NoName, "", "", "", "")

Program == Plain("Program")

FunctionDeclaration(name) == Node("FunctionDeclaration", name, "", "", "", "")
VariableDeclarator(name, init) == Node("VariableDeclarator", name, init, "", "", "")
CallIdentifier(name) == Node("CallExpression", name, "", "Identifier", "", "")
\* the declarator of  const [x, setX] = useState(0): its id is an ArrayPattern
\* (no id.name), its init a call
UseStateDeclarator == Node("VariableDeclarator", NoName, "CallExpression", "", "", "")
CallMember == Node("CallExpression", NoName, "", "MemberExpression", "", "")
JSXElement(name) == Node("JSXElement", name, "", "", "", "")
JSXOpeningElement(name) == Node("JSXOpeningElement", name, "", "", "", "")
JSXAttribute(name) == Node("JSXAttribute", name, "", "", "", "")
LogicalExpression(op) == Node("LogicalExpression", NoName, "", "", op, "")
ImportDeclaration(source) == Node("ImportDeclaration", NoName, "", "", "", source)
ExportDeclaration(type, name) == Node(type, name, "", "", "", "")

FunctionInits == {"ArrowFunctionExpression", "FunctionExpression"}
BranchTypes == {"IfStatement", "ConditionalExpression", "SwitchCase", "CatchClause"}
LoopTypes == {"ForStatement", "WhileStatement", "DoWhileStatement",
              "ForInStatement", "ForOfStatement"}

\* The children every node of a type has, in the key order of the parser's
\* nodes: a JSXElement holds its openingElement (same tag name), a
\* CallExpression holds its callee.
MandatoryChildren(node) ==
    IF node.type = "JSXElement" THEN <<JSXOpeningElement(node.name)>>
    ELSE IF node.type = "CallExpression"
    THEN <<Node(node.callee, node.name, "", "", "", "")>>
    ELSE IF node = UseStateDeclarator
    THEN <<Plain("ArrayPattern"), CallIdentifier(n_useState)>>
    ELSE <<>>

\* Is the node a function-like declaration with a bound name
\* (the two early-return blocks, App.jsx:64 and App.jsx:107-110)?
IsNamedFunction(node) ==
    \/ node.type = "FunctionDeclaration" /\ node.name # NoName
    \/ /\ node.type = "VariableDeclarator"
       /\ node.init \in FunctionInits
       /\ node.name # NoName

----------------------------------------------------------------------------
(* Objects used as maps, and arrays                                        *)

EmptyObject == <<>>

Put(obj, key, value) ==
    [k \in (DOMAIN obj) \cup {key} |-> IF k = key THEN value ELSE obj[k]]

\* [...new Set(array)] : first occurrences, in order
RemoveDuplicates(array) ==
    LET F[i \in 0..Len(array)] ==
            IF i = 0 THEN <<>>
            ELSE IF \E j \in 1..(i - 1) : array[j] = array[i]
                 THEN F[i - 1]
                 ELSE Append(F[i - 1], array[i])
    IN F[Len(array)]

Min(a, b) == IF a < b THEN a ELSE b
Max(a, b) == IF a > b THEN a ELSE b
----------------------------------------------------------------------------
(* The per-node steps of traverse, as functions of the state they change   *)

\* const analysis = {...} (App.jsx:24-51); loc is code.split('\n').length.
\* An import entry keeps its source only (the specifier names are not read
\* by any later computation of the engine).
NewAnalysis(filename, loc) ==
    [filename |-> filename,
     functions |-> <<>>, variables |-> <<>>, eventHandlers |-> <<>>,
     components |-> <<>>, hooks |-> <<>>, imports |-> <<>>, exports |-> <<>>,
     complexity |-> [depth |-> 0, branches |-> 0, loops |-> 0],
     issues |-> <<>>,
     loc |-> loc,
     metrics |-> [cyclomaticComplexity |-> 1, cbo |-> 0, wmc |-> 0,
                  maintainabilityIndex |-> 100],
     dependencyAnalysis |-> [components |-> <<>>, allFunctions |-> <<>>,
                             dependencies |-> {}, jsxUsages |-> EmptyObject,
                             functionCalls |-> EmptyObject,
                             importedModules |-> <<>>]]

\* analysis.complexity.depth = Math.max(analysis.complexity.depth, depth)
UpdateDepth(a, depth) ==
    [a EXCEPT !.complexity.depth = Max(@, depth)]

\* variant of RegisterFunction: wmc counts a name the first time only
RegisterFunction_CountsNewNames(a, funcName) ==
    LET kind == ClassifyFunction(funcName)
        a1 == [a EXCEPT !.functions = Append(@, funcName),
                        !.metrics.wmc =
                            IF funcName \in Range(a.functions) THEN @ ELSE @ + 1]
        a2 == IF kind = "component"
              THEN [a1 EXCEPT !.components = Append(@, funcName),
                              !.dependencyAnalysis.components = Append(@, funcName)]
              ELSE IF kind = "handler"
              THEN [a1 EXCEPT !.eventHandlers = Append(@, funcName)]
              ELSE a1
    IN [a2 EXCEPT !.dependencyAnalysis.allFunctions = Append(@, funcName)]

\* App.jsx:65-82 and 111-128: register a function-like declaration
RegisterFunction(a, funcName) ==
    LET kind == ClassifyFunction(funcName)
        a1 == [a EXCEPT !.functions = Append(@, funcName),
                        !.metrics.wmc = @ + 1]
        a2 == IF kind = "component"
              THEN [a1 EXCEPT !.components = Append(@, funcName),
                              !.dependencyAnalysis.components = Append(@, funcName)]
              ELSE IF kind = "handler"
              THEN [a1 EXCEPT !.eventHandlers = Append(@, funcName)]
              ELSE a1
    IN [a2 EXCEPT !.dependencyAnalysis.allFunctions = Append(@, funcName)]

\* if (!functionDependencies[funcName]) functionDependencies[funcName] = {}
EnsureEntry(deps, funcName) ==
    IF funcName \in DOMAIN deps THEN deps ELSE Put(deps, funcName, EmptyObject)

\* functionDependencies[from][to] = (functionDependencies[from][to] || 0) + 1
\* (App.jsx:166-170 and 210-214)
AddDependency(deps, from, to) ==
    LET d == EnsureEntry(deps, from)
        old == IF to \in DOMAIN d[from] THEN d[from][to] ELSE 0
    IN [d EXCEPT ![from] = Put(@, to, old + 1)]

\* App.jsx:152-154: a declarator that is not function-like
PlainVariable(a, node) ==
    IF /\ node.type = "VariableDeclarator"
       /\ node.init \notin FunctionInits
       /\ node.name # NoName
    THEN [a EXCEPT !.variables = Append(@, node.name)]
    ELSE a

\* App.jsx:159-173: capitalized JSX tag used inside a function
JSXDependencies(deps, current, node) ==
    IF /\ node.type \in {"JSXElement", "JSXOpeningElement"}
       /\ node.name # NoName
       /\ TestComponent(node.name)
       /\ current # NoName
    THEN AddDependency(deps, current, node.name)
    ELSE deps

\* let calleeName (App.jsx:177-186): set for an Identifier callee only
CalleeName(node) ==
    IF node.type = "CallExpression" /\ node.callee = "Identifier"
    THEN node.name
    ELSE NoName

\* App.jsx:190-192
TrackHook(a, node) ==
    IF CalleeName(node) # NoName /\ isHook(CalleeName(node))
    THEN [a EXCEPT !.hooks = Append(@, CalleeName(node))]
    ELSE a

\* variant of CallDependencies: the builtins list is not consulted
CallDependencies_NoDenylist(deps, current, node) ==
    LET calleeName == CalleeName(node) IN
    IF /\ calleeName # NoName
       /\ current # NoName
       /\ calleeName # current
       /\ ~isHook(calleeName)
       /\ ~isSetState(calleeName)
    THEN AddDependency(deps, current, calleeName)
    ELSE deps

\* App.jsx:195-216
CallDependencies(deps, current, node) ==
    LET calleeName == CalleeName(node) IN
    IF /\ calleeName # NoName
       /\ current # NoName
       /\ calleeName # current
       /\ calleeName \notin builtins
       /\ ~isHook(calleeName)
       /\ ~isSetState(calleeName)
    THEN AddDependency(deps, current, calleeName)
    ELSE deps

\* App.jsx:221-240
TrackImport(a, node) ==
    IF node.type = "ImportDeclaration"
    THEN [a EXCEPT !.imports = Append(@, [source |-> node.source]),
                   !.dependencyAnalysis.importedModules =
                        Append(@, [source |-> node.source]),
                   !.metrics.cbo = @ + 1]
    ELSE a

\* App.jsx:243-248
TrackExport(a, node) ==
    IF /\ node.type \in {"ExportDefaultDeclaration", "ExportNamedDeclaration"}
       /\ node.name # NoName
    THEN [a EXCEPT !.exports = Append(@, node.name)]
    ELSE a

\* variant of CountComplexity: a loop bumps complexity.loops only
CountComplexity_LoopsUncounted(a, node) ==
    LET a1 == IF node.type \in BranchTypes
              THEN [a EXCEPT !.complexity.branches = @ + 1,
                             !.metrics.cyclomaticComplexity = @ + 1]
              ELSE a
        a2 == IF node.type \in LoopTypes
              THEN [a1 EXCEPT !.complexity.loops = @ + 1]
              ELSE a1
    IN IF node.type = "LogicalExpression" /\ node.operator \in {"&&", "||"}
       THEN [a2 EXCEPT !.metrics.cyclomaticComplexity = @ + 1]
       ELSE a2

\* App.jsx:251-263
CountComplexity(a, node) ==
    LET a1 == IF node.type \in BranchTypes
              THEN [a EXCEPT !.complexity.branches = @ + 1,
                             !.metrics.cyclomaticComplexity = @ + 1]
              ELSE a
        a2 == IF node.type \in LoopTypes
              THEN [a1 EXCEPT !.complexity.loops = @ + 1,
                              !.metrics.cyclomaticComplexity = @ + 1]
              ELSE a1
    IN IF node.type = "LogicalExpression" /\ node.operator \in {"&&", "||"}
       THEN [a2 EXCEPT !.metrics.cyclomaticComplexity = @ + 1]
       ELSE a2

\* variant of DetectIssues: only the eval() test
DetectIssues_EvalOnly(a, node) ==
    IF node.type = "CallExpression" /\ node.name = n_eval
    THEN [a EXCEPT !.issues = Append(@,
                     [type |-> "security", message |-> "eval()",
                      severity |-> "high"])]
    ELSE a

\* App.jsx:266-281
DetectIssues(a, node) ==
    LET a1 == IF /\ node.type = "JSXAttribute"
                 /\ node.name = n_dangerouslySetInnerHTML
              THEN [a EXCEPT !.issues = Append(@,
                        [type |-> "security",
                         message |-> "dangerouslySetInnerHTML",
                         severity |-> "high"])]
              ELSE a
    IN IF node.type = "CallExpression" /\ node.name = n_eval
       THEN [a1 EXCEPT !.issues = Append(@,
                        [type |-> "security", message |-> "eval()",
                         severity |-> "high"])]
       ELSE a1

\* Everything traverse does to analysis at a node that is not a named
\* function-like declaration (App.jsx:61, 151-281), in the order of the code
VisitOrdinary(a, node, depth) ==
    DetectIssues(
      CountComplexity(
        TrackExport(
          TrackImport(
            TrackHook(
              PlainVariable(UpdateDepth(a, depth), node), node), node), node),
        node), node)
----------------------------------------------------------------------------
(* After the walk (App.jsx:297-336)                                        *)

\* App.jsx:298-303 (eventHandlers is not among the arrays rebuilt)
DedupeNames(a) ==
    [a EXCEPT !.hooks = RemoveDuplicates(@),
              !.components = RemoveDuplicates(@),
              !.dependencyAnalysis.components = RemoveDuplicates(@),
              !.dependencyAnalysis.allFunctions = RemoveDuplicates(@),
              !.functions = RemoveDuplicates(@),
              !.variables = RemoveDuplicates(@)]

\* variant of KeepsEdge: only names declared in the file
KeepsEdge_DeclaredOnly(defined, to) == to \in defined

\* the test of App.jsx:310
KeepsEdge(defined, to) == to \in defined \/ TestComponent(to)

\* variant of BuildDependencies: an undeclared target is 'external', also
\* when its name is capitalized
BuildDependencies_UndeclaredExternal(deps, defined, types) ==
    UNION { { [from |-> from, to |-> to, count |-> deps[from][to],
               fromType |-> IF from \in DOMAIN types THEN types[from]
                            ELSE "unknown",
               toType |-> IF to \in DOMAIN types THEN types[to]
                          ELSE "external"]
              : to \in {t \in DOMAIN deps[from] : KeepsEdge(defined, t)} }
            : from \in DOMAIN deps }

\* App.jsx:306-320. The array is kept as a set of edges: Object.entries
\* yields each (from, to) key pair once.
BuildDependencies(deps, defined, types) ==
    UNION { { [from |-> from, to |-> to, count |-> deps[from][to],
               fromType |-> IF from \in DOMAIN types THEN types[from]
                            ELSE "unknown",
               toType |-> IF to \in DOMAIN types THEN types[to]
                          ELSE IF TestComponent(to) THEN "component"
                          ELSE "external"]
              : to \in {t \in DOMAIN deps[from] : KeepsEdge(defined, t)} }
            : from \in DOMAIN deps }

\* Math.log(LOC + 1) in millionths, for the line counts the model draws
LnMicro(loc) ==
    CASE loc = 1    -> 693147
      [] loc = 2    -> 1098612
      [] loc = 30   -> 3433987
      [] loc = 300  -> 5707110
      [] loc = 301  -> 5710427
      [] loc = 500  -> 6216606
      [] loc = 501  -> 6218600
      [] loc = 3000 -> 8006701

\* variant of MaintainabilityIndex: rounded without the clamp to [0,100]
MaintainabilityIndex_Unclamped(loc, CC) ==
    LET mi == 1710000000 - 52 * LnMicro(loc) - 2300000 * CC - 162 * LnMicro(loc)
    IN (mi + 5000000) \div 10000000

\* App.jsx:326-332, computed in units of 1e-7:
\* mi = 171 - 5.2 * Math.log(V + 1) - 0.23 * CC - 16.2 * Math.log(LOC + 1)
\* mi = Math.max(0, Math.min(100, mi)); Math.round(mi)
MaintainabilityIndex(loc, CC) ==
    LET mi == 1710000000 - 52 * LnMicro(loc) - 2300000 * CC - 162 * LnMicro(loc)
        clamped == Max(0, Min(1000000000, mi))
    IN (clamped + 5000000) \div 10000000

\* App.jsx:297-336: the record analyzeCode returns on success
FinishAnalysis(a, deps, defined, types, analysisTime) ==
    LET a1 == DedupeNames(a)
        a2 == [a1 EXCEPT !.dependencyAnalysis =
                   [f \in (DOMAIN @) \cup {"functionTypes"} |->
                       IF f = "functionTypes" THEN types
                       ELSE IF f = "dependencies"
                       THEN BuildDependencies(deps, defined, types)
                       ELSE @[f]]]
        a3 == [a2 EXCEPT !.metrics.maintainabilityIndex =
                   MaintainabilityIndex(a.loc, a.metrics.cyclomaticComplexity)]
    IN a3 @@ [analysisTime |-> analysisTime]

\* variant of ErrorRecord: the error record also carries zeroed metrics
ErrorRecord_WithMetrics(filename, message, loc, analysisTime) ==
    [filename |-> filename, error |-> message, loc |-> loc,
     analysisTime |-> analysisTime,
     metrics |-> [cyclomaticComplexity |-> 0, cbo |-> 0, wmc |-> 0,
                  maintainabilityIndex |-> 0]]

\* App.jsx:338-343: the record analyzeCode returns from its catch block
ErrorRecord(filename, message, loc, analysisTime) ==
    [filename |-> filename, error |-> message, loc |-> loc,
     analysisTime |-> analysisTime]

----------------------------------------------------------------------------
(* calculateQualityScore (App.jsx:347-361)                                 *)

\* a field read as a condition: absent (undefined) and '' are falsy
Truthy(record, field) == field \in DOMAIN record /\ record[field] # ""

\* reading analysis.metrics.cyclomaticComplexity of a record without
\* metrics raises a TypeError (App.jsx:351)
ScoreThrows(record) == ~Truthy(record, "error") /\ "metrics" \notin DOMAIN record

\* variant of calculateQualityScore: the bonus is given for hooks or components
calculateQualityScore_BonusEither(record) ==
    IF Truthy(record, "error") THEN 0
    ELSE
    LET s1 == 100 - Min(30, record.metrics.cyclomaticComplexity * 2)
        s2 == s1 - Min(15, record.complexity.depth)
        s3 == s2 - Len(record.issues) * 10
        s4 == IF record.loc > 300 THEN s3 - 10 ELSE s3
        s5 == IF record.loc > 500 THEN s4 - 10 ELSE s4
        s6 == IF Len(record.hooks) > 0 \/ Len(record.components) > 0
              THEN s5 + 5 ELSE s5
    IN Max(0, Min(100, s6))

\* variant of calculateQualityScore: the first path is free, (CC - 1) * 2
calculateQualityScore_FirstPathFree(record) ==
    IF Truthy(record, "error") THEN 0
    ELSE
    LET s1 == 100 - Min(30, (record.metrics.cyclomaticComplexity - 1) * 2)
        s2 == s1 - Min(15, record.complexity.depth)
        s3 == s2 - Len(record.issues) * 10
        s4 == IF record.loc > 300 THEN s3 - 10 ELSE s3
        s5 == IF record.loc > 500 THEN s4 - 10 ELSE s4
        s6 == IF Len(record.hooks) > 0 /\ Len(record.components) > 0
              THEN s5 + 5 ELSE s5
    IN Max(0, Min(100, s6))

calculateQualityScore(record) ==
    IF Truthy(record, "error") THEN 0
    ELSE
    LET s0 == 100
        s1 == s0 - Min(30, record.metrics.cyclomaticComplexity * 2)
        s2 == s1 - Min(15, record.complexity.depth)
        s3 == s2 - Len(record.issues) * 10
        s4 == IF record.loc > 300 THEN s3 - 10 ELSE s3
        s5 == IF record.loc > 500 THEN s4 - 10 ELSE s4
        s6 == IF Len(record.hooks) > 0 /\ Len(record.components) > 0
              THEN s5 + 5 ELSE s5
    IN Max(0, Min(100, s6))

\* variant of IsValidResult: the filter keeps every record
IsValidResult_KeepsAll(record) == TRUE

\* const validResults = analysisResults.filter(r => !r.error) (App.jsx:1086)
IsValidResult(record) == ~Truthy(record, "error")
----------------------------------------------------------------------------
(* Inputs                                                                  *)

Filename == "App.jsx"

\* code.split('\n').length of the files drawn
Lines == {1, 501}

\* error.message of what the parser throws
ParseMessages == {"", "Unexpected token (1:0)"}

\* message of the RangeError of an exhausted call stack
StackMessage == "Maximum call stack size exceeded"

\* analysisTime, in hundredths of a second
AnalysisTimes == {0, 1}

\* The node kinds one drawn file is made of.
VocabIds == {"classify", "handlers", "shapes", "control", "deps", "builtin", "hooks",
             "setters", "state"}

VocabNodes(id) ==
    CASE id = "classify" ->
           {FunctionDeclaration(n) : n \in {n_OnFoo, n_handleClick, n_only}}
           \cup {VariableDeclarator(n, "ArrowFunctionExpression")
                    : n \in {n_OnFoo, n_handleClick, n_only}}
      [] id = "handlers" ->
           {FunctionDeclaration(n) : n \in {n_onGo, n_handle, n_go}}
           \cup {VariableDeclarator(n, "FunctionExpression")
                    : n \in {n_onGo, n_handle, n_go}}
      [] id = "shapes" ->
           {FunctionDeclaration(NoName),
            VariableDeclarator(NoName, "ArrowFunctionExpression"),
            VariableDeclarator(n_x, "NumericLiteral"),
            VariableDeclarator(n_x, "FunctionExpression"),
            ExportDeclaration("ExportDefaultDeclaration", n_Button),
            ExportDeclaration("ExportNamedDeclaration", NoName),
            ImportDeclaration("react"),
            Plain("BlockStatement")}
      [] id = "control" ->
           {Plain(t) : t \in BranchTypes \cup LoopTypes \cup {"BlockStatement"}}
           \cup {LogicalExpression(op) : op \in {"&&", "||", "??"}}
      [] id = "deps" ->
           {FunctionDeclaration(n_Button), FunctionDeclaration(n_handleClick),
            VariableDeclarator(n_handleClick, "ArrowFunctionExpression"),
            CallIdentifier(n_handleClick), CallIdentifier(n_Button),
            JSXElement(n_Button)}
      [] id = "builtin" ->
           {FunctionDeclaration(n_fetch), FunctionDeclaration(n_Button),
            CallIdentifier(n_fetch), CallIdentifier(n_Map), CallMember,
            JSXElement(n_Map)}
      [] id = "hooks" ->
           {FunctionDeclaration(n_Button),
            CallIdentifier(n_useX), CallIdentifier(n_eval),
            JSXElement(n_div),
            JSXAttribute(n_dangerouslySetInnerHTML), JSXAttribute(n_onClick)}
      [] id = "setters" ->
           {FunctionDeclaration(n_Button), FunctionDeclaration(n_set_up)}
           \cup {CallIdentifier(n) : n \in {n_setX, n_set_up, n_setup, n_useX}}
      [] id = "state" ->
           {FunctionDeclaration(n_Button), UseStateDeclarator,
            CallIdentifier(n_setX)}

----------------------------------------------------------------------------
(* analyzeCode as a state machine                                          *)

NoRecord == [none |-> TRUE]

Top == stack[Len(stack)]

\* the innermost enclosing named function-like declaration of the node
\* about to be visited, read off the activations (NoName at file level)
EnclosingFunction(frames) ==
    LET idx == {i \in DOMAIN frames : frames[i].funcName # NoName}
    IN IF idx = {} THEN NoName
       ELSE frames[CHOOSE i \in idx : \A j \in idx : j <= i].funcName

BagAdd(bag, key) ==
    Put(bag, key, (IF key \in DOMAIN bag THEN bag[key] ELSE 0) + 1)

\* what the history records about a visited node
Observe(g, node, free) ==
    LET g1 == [g EXCEPT !.nodes = IF free THEN @ + 1 ELSE @]
        g2 == IF node.type = "LogicalExpression" /\ node.operator \in {"&&", "||"}
              THEN [g1 EXCEPT !.logicals = @ + 1] ELSE g1
        g3 == IF IsNamedFunction(node)
              THEN [g2 EXCEPT !.declarations = @ + 1] ELSE g2
    IN IF node.type = "CallExpression"
       THEN [g3 EXCEPT !.refs = BagAdd(@,
                <<EnclosingFunction(stack),
                  IF node.callee = "Identifier" THEN "call" ELSE "member",
                  node.name>>)]
       ELSE IF node.type = "JSXElement"
       THEN [g3 EXCEPT !.refs = BagAdd(@,
                <<EnclosingFunction(stack), "jsx", node.name>>)]
       ELSE IF node.type = "JSXAttribute"
       THEN [g3 EXCEPT !.refs = BagAdd(@,
                <<EnclosingFunction(stack), "attr", node.name>>)]
       ELSE g3

\* variant of Frame: the activation does not remember the scope it replaced
Frame_ForgetsPrevious(node) ==
    IF IsNamedFunction(node)
    THEN [funcName |-> node.name, previousFunction |-> NoName,
          pending |-> <<>>]
    ELSE [funcName |-> NoName, previousFunction |-> NoName,
          pending |-> MandatoryChildren(node)]

\* the activation traverse(node, ...) leaves on the stack while its children
\* are walked: funcName / previousFunction are the locals of App.jsx:65,89
\* (111,135), pending the children that must come first
Frame(node) ==
    IF IsNamedFunction(node)
    THEN [funcName |-> node.name, previousFunction |-> currentFunction,
          pending |-> <<>>]
    ELSE [funcName |-> NoName, previousFunction |-> NoName,
          pending |-> MandatoryChildren(node)]

\* analysis after traverse has handled the node itself (App.jsx:59-281)
TraverseAnalysis(a, node, depth) ==
    IF IsNamedFunction(node)
    THEN RegisterFunction(UpdateDepth(a, depth), node.name)
    ELSE VisitOrdinary(a, node, depth)

\* functionDependencies after traverse has handled the node itself
TraverseDependencies(deps, current, node) ==
    IF IsNamedFunction(node)
    THEN EnsureEntry(deps, node.name)
    ELSE CallDependencies(JSXDependencies(deps, current, node), current, node)

\* One call traverse(node, depth): the node's own effects, up to the point
\* where its children are walked.
Traverse(node, free) ==
    /\ analysis' = TraverseAnalysis(analysis, node, Len(stack))
    /\ functionDependencies' =
            TraverseDependencies(functionDependencies, currentFunction, node)
    /\ allDefinedFunctions' =
            IF IsNamedFunction(node)
            THEN allDefinedFunctions \cup {node.name}
            ELSE allDefinedFunctions
    /\ functionTypes' =
            IF IsNamedFunction(node)
            THEN Put(functionTypes, node.name, ClassifyFunction(node.name))
            ELSE functionTypes
    /\ currentFunction' =
            IF IsNamedFunction(node) THEN node.name ELSE currentFunction
    /\ stack' = Append(
            IF stack = <<>> THEN stack
            ELSE [stack EXCEPT ![Len(stack)].pending =
                      IF free THEN @ ELSE Tail(@)],
            Frame(node))
    /\ ghost' = Observe(ghost, node, free)

\* the App component as mounted (App.jsx:1015-1020), no upload under way
AppMounted ==
    /\ screen = "upload"
    /\ results = NoRecord
    /\ progress = 0
    /\ currentStep = ""
    /\ uploadedFiles = <<>>
    /\ fileList = <<>>
    /\ validPaths = <<>>
    /\ zipIndex = 0
    /\ progressLog = <<>>
    /\ timers = 0

Init ==
    /\ pc = "parse"
    /\ code \in [lines : Lines, vocab : VocabIds]
    /\ stack = <<>>
    /\ currentFunction = NoName
    /\ analysis = NoRecord
    /\ functionDependencies = EmptyObject
    /\ allDefinedFunctions = {}
    /\ functionTypes = EmptyObject
    /\ error = ""
    /\ result = NoRecord
    /\ ghost = [nodes |-> 0, logicals |-> 0, declarations |-> 0,
                refs |-> EmptyObject, raised |-> FALSE]
    /\ analysisResults = <<>>
    /\ summary = NoRecord
    /\ AppMounted

\* parser.parse returns a tree (App.jsx:18-56)
ParseOk ==
    /\ pc = "parse"
    /\ pc' = "call"
    /\ analysis' = NewAnalysis(Filename, code.lines)
    /\ UNCHANGED <<code, stack, currentFunction, functionDependencies,
                   allDefinedFunctions, functionTypes, error, result, ghost>>
    /\ UNCHANGED <<analysisResults, summary>>
    /\ UNCHANGED appVars

\* parser.parse throws (App.jsx:18 -> 337)
ParseThrows ==
    /\ pc = "parse"
    /\ \E message \in ParseMessages : error' = message
    /\ pc' = "catch"
    /\ ghost' = [ghost EXCEPT !.raised = TRUE]
    /\ UNCHANGED <<code, stack, currentFunction, analysis, functionDependencies,
                   allDefinedFunctions, functionTypes, result>>
    /\ UNCHANGED <<analysisResults, summary>>
    /\ UNCHANGED appVars

\* traverse(ast.program) (App.jsx:295)
TraverseProgram ==
    /\ pc = "call"
    /\ Traverse(Program, FALSE)
    /\ pc' = "walk"
    /\ UNCHANGED <<code, error, result>>
    /\ UNCHANGED <<analysisResults, summary>>
    /\ UNCHANGED appVars

\* a child that the node always has: traverse(child, depth + 1, ...)
TraverseMandatoryChild ==
    /\ pc = "walk"
    /\ stack # <<>>
    /\ Len(stack) < StackLimit
    /\ Top.pending # <<>>
    /\ Traverse(Head(Top.pending), FALSE)
    /\ UNCHANGED <<pc, code, error, result>>
    /\ UNCHANGED <<analysisResults, summary>>
    /\ UNCHANGED appVars

\* any further child: traverse(child, depth + 1, ...) (App.jsx:92-100,
\* 138-146, 284-292)
TraverseChild ==
    /\ pc = "walk"
    /\ stack # <<>>
    /\ Len(stack) < StackLimit
    /\ Top.pending = <<>>
    /\ ghost.nodes < MaxNodes
    /\ \E node \in VocabNodes(code.vocab) : Traverse(node, TRUE)
    /\ UNCHANGED <<pc, code, error, result>>
    /\ UNCHANGED <<analysisResults, summary>>
    /\ UNCHANGED appVars

\* the recursion exhausts the call stack: a RangeError unwinds every
\* activation of traverse up to the catch of App.jsx:337
TraverseThrows ==
    /\ pc = "walk"
    /\ stack # <<>>
    /\ Len(stack) >= StackLimit
    /\ Top.pending # <<>> \/ ghost.nodes < MaxNodes
    /\ error' = StackMessage
    /\ pc' = "catch"
    /\ stack' = <<>>
    /\ ghost' = [ghost EXCEPT !.raised = TRUE]
    /\ UNCHANGED <<code, currentFunction, analysis, functionDependencies,
                   allDefinedFunctions, functionTypes, result>>
    /\ UNCHANGED <<analysisResults, summary>>
    /\ UNCHANGED appVars

\* traverse returns: currentFunction = previousFunction (App.jsx:102, 148)
\* for a named function-like declaration
Return ==
    /\ pc = "walk"
    /\ stack # <<>>
    /\ Top.pending = <<>>
    /\ stack' = SubSeq(stack, 1, Len(stack) - 1)
    /\ currentFunction' =
            IF Top.funcName # NoName THEN Top.previousFunction
            ELSE currentFunction
    /\ pc' = IF Len(stack) = 1 THEN "post" ELSE "walk"
    /\ UNCHANGED <<code, analysis, functionDependencies, allDefinedFunctions,
                   functionTypes, error, result, ghost>>
    /\ UNCHANGED <<analysisResults, summary>>
    /\ UNCHANGED appVars

\* App.jsx:297-336
PostWalk ==
    /\ pc = "post"
    /\ \E analysisTime \in AnalysisTimes :
          result' = FinishAnalysis(analysis, functionDependencies,
                                   allDefinedFunctions, functionTypes,
                                   analysisTime)
    /\ pc' = "returned"
    /\ UNCHANGED <<code, stack, currentFunction, analysis, functionDependencies,
                   allDefinedFunctions, functionTypes, error, ghost>>
    /\ UNCHANGED <<analysisResults, summary>>
    /\ UNCHANGED appVars

\* App.jsx:337-344
Catch ==
    /\ pc = "catch"
    /\ \E analysisTime \in AnalysisTimes :
          result' = ErrorRecord(Filename, error, code.lines, analysisTime)
    /\ pc' = "returned"
    /\ UNCHANGED <<code, stack, currentFunction, analysis, functionDependencies,
                   allDefinedFunctions, functionTypes, error, ghost>>
    /\ UNCHANGED <<analysisResults, summary>>
    /\ UNCHANGED appVars

\* result.qualityScore = calculateQualityScore(result) (App.jsx:1073)
Score ==
    /\ pc = "returned"
    /\ ~ScoreThrows(result)
    /\ result' = result @@ [qualityScore |-> calculateQualityScore(result)]
    /\ pc' = "scored"
    /\ UNCHANGED <<code, stack, currentFunction, analysis, functionDependencies,
                   allDefinedFunctions, functionTypes, error, ghost>>
    /\ UNCHANGED <<analysisResults, summary>>
    /\ UNCHANGED appVars

\* calculateQualityScore throws: the TypeError leaves processFiles, whose
\* promise is rejected
ScoreFails ==
    /\ pc = "returned"
    /\ ScoreThrows(result)
    /\ pc' = "rejected"
    /\ UNCHANGED <<code, stack, currentFunction, analysis, functionDependencies,
                   allDefinedFunctions, functionTypes, error, result, ghost>>
    /\ UNCHANGED <<analysisResults, summary>>
    /\ UNCHANGED appVars

Next ==
    \/ ParseOk
    \/ ParseThrows
    \/ TraverseProgram
    \/ TraverseMandatoryChild
    \/ TraverseChild
    \/ TraverseThrows
    \/ Return
    \/ PostWalk
    \/ Catch
    \/ Score
    \/ ScoreFails

Spec == Init /\ [][Next]_vars
----------------------------------------------------------------------------
(* The metrics of App.jsx:325-332 and 347-361 over drawn counters: the     *)
(* state is the one analyzeCode is in when the walk has ended (or when an  *)
(* exception has been caught), with the counters of the walk drawn from    *)
(* bounded ranges instead of being produced by a drawn tree.               *)

ScoreLines == {1, 2, 30, 300, 301, 500, 501, 3000}

Issue == [type |-> "security", message |-> "eval()", severity |-> "high"]

\* analysis as the walk leaves it for the drawn counters
DrawnAnalysis(loc, CC, depth, issueCount, hooks, components) ==
    [NewAnalysis(Filename, loc) EXCEPT
        !.metrics.cyclomaticComplexity = CC,
        !.metrics.wmc = Len(components),
        !.complexity.branches = CC - 1,
        !.complexity.depth = depth,
        !.issues = [i \in 1..issueCount |-> Issue],
        !.hooks = hooks,
        !.components = components,
        !.functions = components,
        !.dependencyAnalysis.components = components,
        !.dependencyAnalysis.allFunctions = components]

\* a walk that met a node (a function, a branch) is at least one level deep,
\* one that met a call at least two
DepthPossible(CC, depth, issueCount, hooks, components) ==
    /\ (CC > 1 \/ components # <<>>) => depth >= 1
    /\ (issueCount > 0 \/ hooks # <<>>) => depth >= 2

InitScore ==
    /\ code \in [lines : ScoreLines, vocab : {"drawn"}]
    /\ stack = <<>>
    /\ currentFunction = NoName
    /\ result = NoRecord
    /\ functionDependencies = EmptyObject
    /\ analysisResults = <<>>
    /\ summary = NoRecord
    /\ AppMounted
    /\ \/ /\ pc = "post"
          /\ error = ""
          /\ \E CC \in 1..MaxCC, depth \in 0..MaxDepthDrawn,
                issueCount \in 0..MaxIssues,
                hooks \in {<<>>, <<n_useX>>},
                components \in {<<>>, <<n_Button>>} :
                /\ DepthPossible(CC, depth, issueCount, hooks, components)
                /\ analysis = DrawnAnalysis(code.lines, CC, depth, issueCount,
                                            hooks, components)
                /\ allDefinedFunctions = Range(components)
                /\ functionTypes =
                      [n \in Range(components) |-> ClassifyFunction(n)]
                /\ ghost = [nodes |-> 0, logicals |-> 0,
                            declarations |-> Len(components),
                            refs |-> EmptyObject, raised |-> FALSE]
       \/ /\ pc = "catch"
          /\ error \in ParseMessages \cup {StackMessage}
          /\ analysis = NoRecord
          /\ allDefinedFunctions = {}
          /\ functionTypes = EmptyObject
          /\ ghost = [nodes |-> 0, logicals |-> 0, declarations |-> 0,
                      refs |-> EmptyObject, raised |-> TRUE]

NextScore ==
    \/ PostWalk
    \/ Catch
    \/ Score
    \/ ScoreFails

SpecScore == InitScore /\ [][NextScore]_vars
----------------------------------------------------------------------------
(* processFiles (App.jsx:1022-1157): the loop over the files and the       *)
(* summary built from the records                                          *)

\* array.reduce((sum, r) => sum + term(r), 0), given the terms
Reduce(terms) ==
    LET F[i \in 0..Len(terms)] ==
            IF i = 0 THEN 0 ELSE F[i - 1] + terms[i]
    IN F[Len(terms)]

\* array.flatMap(r => part(r)), given the parts
FlatMap(parts) ==
    LET F[i \in 0..Len(parts)] ==
            IF i = 0 THEN <<>> ELSE F[i - 1] \o parts[i]
    IN F[Len(parts)]

\* r[field]?.length || 0
LengthOrZero(r, field) == IF field \in DOMAIN r THEN Len(r[field]) ELSE 0

\* r.metrics?.[name] || 0
MetricOrZero(r, name) ==
    IF "metrics" \in DOMAIN r THEN r.metrics[name] ELSE 0

\* r[field] || 0, r[field] || []
FieldOr(r, field, default) ==
    IF field \in DOMAIN r THEN r[field] ELSE default

\* Math.round(sum / n) for sum >= 0, n > 0
MathRound(sum, n) == (2 * sum + n) \div (2 * n)

\* variant of Average: no test of validResults.length; 0 / 0 is NaN, written -1
Average_Unguarded(sum, n) == IF n > 0 THEN MathRound(sum, n) ELSE -1

\* validResults.length > 0 ? Math.round(sum / validResults.length) : 0
Average(sum, n) == IF n > 0 THEN MathRound(sum, n) ELSE 0

\* const key = `${dep.from}->${dep.to}` (App.jsx:1111)
DependencyKey(dep) == dep.from \o <<"-", ">">> \o dep.to

\* variant of AddToDependencyMap: a later record's edge replaces the entry
AddToDependencyMap_Overwrites(dependencyMap, dep) ==
    Put(dependencyMap, DependencyKey(dep), dep)

\* the body of r.dependencyAnalysis.dependencies.forEach (App.jsx:1110-1117)
AddToDependencyMap(dependencyMap, dep) ==
    LET key == DependencyKey(dep) IN
    IF key \in DOMAIN dependencyMap
    THEN [dependencyMap EXCEPT ![key].count = @ + dep.count]
    ELSE Put(dependencyMap, key, dep)

\* r.dependencyAnalysis.dependencies.forEach(...) over the edges of a record
RECURSIVE MergeDependencies(_, _)
MergeDependencies(dependencyMap, deps) ==
    IF deps = {} THEN dependencyMap
    ELSE LET dep == CHOOSE d \in deps : TRUE
         IN MergeDependencies(AddToDependencyMap(dependencyMap, dep),
                              deps \ {dep})

\* Object.assign(target, source)
ObjectAssign(target, source) ==
    [k \in DOMAIN target \cup DOMAIN source |->
        IF k \in DOMAIN source THEN source[k] ELSE target[k]]

\* the accumulators after validResults.forEach (App.jsx:1096-1119)
MergeRecords(valid) ==
    LET F[i \in 0..Len(valid)] ==
            IF i = 0
            THEN [allFunctions |-> <<>>, components |-> <<>>,
                  dependencyMap |-> EmptyObject,
                  mergedFunctionTypes |-> EmptyObject]
            ELSE IF "dependencyAnalysis" \notin DOMAIN valid[i]
            THEN F[i - 1]
            ELSE LET d == valid[i].dependencyAnalysis
                 IN [allFunctions |->
                        F[i - 1].allFunctions \o FieldOr(d, "allFunctions", <<>>),
                     components |->
                        F[i - 1].components \o FieldOr(d, "components", <<>>),
                     dependencyMap |->
                        MergeDependencies(F[i - 1].dependencyMap, d.dependencies),
                     mergedFunctionTypes |->
                        IF "functionTypes" \in DOMAIN d
                        THEN ObjectAssign(F[i - 1].mergedFunctionTypes,
                                          d.functionTypes)
                        ELSE F[i - 1].mergedFunctionTypes]
    IN F[Len(valid)]

\* combinedDependencyAnalysis (App.jsx:1089-1124); Object.values(dependencyMap)
\* is kept as the set of its edges
CombinedDependencyAnalysis(valid) ==
    LET m == MergeRecords(valid) IN
    [allFunctions |-> RemoveDuplicates(m.allFunctions),
     components |-> RemoveDuplicates(m.components),
     dependencies |-> {m.dependencyMap[k] : k \in DOMAIN m.dependencyMap},
     functionTypes |-> m.mergedFunctionTypes]
\* const summary (App.jsx:1126-1149). totalAnalysisTime is kept in
\* hundredths, the unit of the records' toFixed(2) strings.
Summary(records) ==
    LET valid == SelectSeq(records, IsValidResult)
        Lengths(field) ==
            Reduce([i \in DOMAIN valid |-> LengthOrZero(valid[i], field)])
        Metrics(name) ==
            Reduce([i \in DOMAIN valid |-> MetricOrZero(valid[i], name)])
    IN
    [totalFiles |-> Len(records),
     totalLOC |-> Reduce([i \in DOMAIN records |-> FieldOr(records[i], "loc", 0)]),
     totalFunctions |-> Lengths("functions"),
     totalVariables |-> Lengths("variables"),
     totalEventHandlers |-> Lengths("eventHandlers"),
     totalComponents |-> Lengths("components"),
     totalHooks |->
        RemoveDuplicates(FlatMap(
            [i \in DOMAIN valid |-> FieldOr(valid[i], "hooks", <<>>)])),
     totalImports |->
        RemoveDuplicates(FlatMap(
            [i \in DOMAIN valid |->
                IF "imports" \in DOMAIN valid[i]
                THEN [k \in DOMAIN valid[i].imports |->
                         valid[i].imports[k].source]
                ELSE <<>>])),
     totalIssues |-> Lengths("issues"),
     avgQualityScore |->
        Average(Reduce([i \in DOMAIN valid |-> valid[i].qualityScore]),
                Len(valid)),
     avgCyclomaticComplexity |->
        Average(Metrics("cyclomaticComplexity"), Len(valid)),
     avgMaintainabilityIndex |->
        Average(Metrics("maintainabilityIndex"), Len(valid)),
     totalCBO |-> Metrics("cbo"),
     totalWMC |-> Metrics("wmc"),
     totalAnalysisTime |->
        Reduce([i \in DOMAIN valid |-> FieldOr(valid[i], "analysisTime", 0)]),
     dependencyAnalysis |-> CombinedDependencyAnalysis(valid)]

\* A whole tree as <<node, children>>, and traverse as the recursive
\* function it is: the state is what the walk of Spec keeps in analysis,
\* functionDependencies, allDefinedFunctions, functionTypes, currentFunction.
Tree(node, children) == <<node, children>>

Leaves(nodes) == [i \in DOMAIN nodes |-> Tree(nodes[i], <<>>)]

RECURSIVE TraverseTree(_, _, _)
RECURSIVE TraverseChildren(_, _, _)
TraverseTree(s, tree, depth) ==
    LET node == tree[1]
        s1 == [analysis |-> TraverseAnalysis(s.analysis, node, depth),
               functionDependencies |->
                    TraverseDependencies(s.functionDependencies,
                                         s.currentFunction, node),
               allDefinedFunctions |->
                    IF IsNamedFunction(node)
                    THEN s.allDefinedFunctions \cup {node.name}
                    ELSE s.allDefinedFunctions,
               functionTypes |->
                    IF IsNamedFunction(node)
                    THEN Put(s.functionTypes, node.name,
                             ClassifyFunction(node.name))
                    ELSE s.functionTypes,
               currentFunction |->
                    IF IsNamedFunction(node) THEN node.name
                    ELSE s.currentFunction]
        s2 == TraverseChildren(s1, Leaves(MandatoryChildren(node)) \o tree[2],
                               depth + 1)
    IN [s2 EXCEPT !.currentFunction = s.currentFunction]

TraverseChildren(s, children, depth) ==
    IF children = <<>> THEN s
    ELSE TraverseChildren(TraverseTree(s, Head(children), depth),
                          Tail(children), depth)

\* analyzeCode(content, name) on a file whose tree is given (App.jsx:14-336)
AnalyzeTree(loc, children, analysisTime) ==
    LET s == TraverseTree([analysis |-> NewAnalysis(Filename, loc),
                           functionDependencies |-> EmptyObject,
                           allDefinedFunctions |-> {},
                           functionTypes |-> EmptyObject,
                           currentFunction |-> NoName],
                          Tree(Program, children), 0)
    IN FinishAnalysis(s.analysis, s.functionDependencies,
                      s.allDefinedFunctions, s.functionTypes, analysisTime)

\* the files of an upload
Files == {"pair", "twice", "jsx", "hooks", "plain", "empty", "syntax", "blank"}

\* fileList[i].content, by its line count, its tree (or the message of the
\* parser's exception) and the time its analysis takes
FileContent(name) ==
    CASE name = "pair" ->
           [lines |-> 1, analysisTime |-> 0, children |->
              <<Tree(FunctionDeclaration(n_Button),
                     <<Tree(CallIdentifier(n_handleClick), <<>>)>>),
                Tree(FunctionDeclaration(n_handleClick), <<>>)>>]
      [] name = "twice" ->
           [lines |-> 501, analysisTime |-> 1, children |->
              <<Tree(FunctionDeclaration(n_Button),
                     <<Tree(CallIdentifier(n_handleClick), <<>>),
                       Tree(CallIdentifier(n_handleClick), <<>>)>>),
                Tree(FunctionDeclaration(n_handleClick), <<>>)>>]
      [] name = "jsx" ->
           [lines |-> 1, analysisTime |-> 1, children |->
              <<Tree(VariableDeclarator(n_handleClick, "ArrowFunctionExpression"),
                     <<Tree(JSXElement(n_Button), <<>>)>>)>>]
      [] name = "hooks" ->
           [lines |-> 501, analysisTime |-> 0, children |->
              <<Tree(FunctionDeclaration(n_Button),
                     <<Tree(CallIdentifier(n_useX), <<>>),
                       Tree(CallIdentifier(n_eval), <<>>)>>)>>]
      [] name = "plain" ->
           [lines |-> 1, analysisTime |-> 1, children |->
              <<Tree(ImportDeclaration("react"), <<>>),
                Tree(VariableDeclarator(n_x, "NumericLiteral"), <<>>),
                Tree(Plain("BlockStatement"), <<>>)>>]
      [] name = "empty" ->
           [lines |-> 1, analysisTime |-> 0, children |-> <<>>]
      [] name = "syntax" ->
           [lines |-> 501, analysisTime |-> 1,
            message |-> "Unexpected token (1:0)"]
      [] name = "blank" ->
           [lines |-> 1, analysisTime |-> 0, message |-> ""]

\* analyzeCode(fileList[i].content, fileList[i].name) (App.jsx:1072)
analyzeCode(name) ==
    LET content == FileContent(name) IN
    IF "message" \in DOMAIN content
    THEN ErrorRecord(Filename, content.message, content.lines,
                     content.analysisTime)
    ELSE AnalyzeTree(content.lines, content.children, content.analysisTime)

\* number of files of an upload
MaxFiles == 3

InitFiles ==
    /\ pc = "files"
    /\ code = [lines |-> 0, vocab |-> "none"]
    /\ stack = <<>>
    /\ currentFunction = NoName
    /\ analysis = NoRecord
    /\ functionDependencies = EmptyObject
    /\ allDefinedFunctions = {}
    /\ functionTypes = EmptyObject
    /\ error = ""
    /\ result = NoRecord
    /\ ghost = [nodes |-> 0, logicals |-> 0, declarations |-> 0,
                refs |-> EmptyObject, raised |-> FALSE]
    /\ analysisResults = <<>>
    /\ summary = NoRecord
    /\ AppMounted

\* const result = analyzeCode(...) for the next file (App.jsx:1071-1072)
AnalyzeFile ==
    /\ pc = "files"
    /\ Len(analysisResults) < MaxFiles
    /\ \E name \in Files :
          /\ result' = analyzeCode(name)
          /\ code' = [lines |-> FileContent(name).lines, vocab |-> name]
    /\ pc' = "returned"
    /\ UNCHANGED <<stack, currentFunction, analysis, functionDependencies,
                   allDefinedFunctions, functionTypes, error, ghost,
                   analysisResults, summary>>
    /\ UNCHANGED appVars

\* analysisResults.push(result) (App.jsx:1074)
PushResult ==
    /\ pc = "scored"
    /\ analysisResults' = Append(analysisResults, result)
    /\ pc' = "files"
    /\ UNCHANGED <<code, stack, currentFunction, analysis, functionDependencies,
                   allDefinedFunctions, functionTypes, error, result, ghost,
                   summary>>
    /\ UNCHANGED appVars

\* the loop has ended: the summary is built and handed to setResults
\* (App.jsx:1086-1152)
Summarize ==
    /\ pc = "files"
    /\ summary' = Summary(analysisResults)
    /\ pc' = "summary"
    /\ UNCHANGED <<code, stack, currentFunction, analysis, functionDependencies,
                   allDefinedFunctions, functionTypes, error, result, ghost,
                   analysisResults>>
    /\ UNCHANGED appVars

NextFiles ==
    \/ AnalyzeFile
    \/ Score
    \/ ScoreFails
    \/ PushResult
    \/ Summarize

SpecFiles == InitFiles /\ [][NextFiles]_vars
----------------------------------------------------------------------------
(* The App component and processFiles up to the analysis loop             *)
(* (App.jsx:1014-1067)                                                    *)

\* String.prototype.includes
includes(s, p) ==
    \E k \in 0..(Len(s) - Len(p)) : SubSeq(s, k + 1, k + Len(p)) = p

\* String.prototype.endsWith
endsWith(s, p) ==
    Len(s) >= Len(p) /\ SubSeq(s, Len(s) - Len(p) + 1, Len(s)) = p

\* the literals of the filter and of the tests of file.name
s_node_modules == <<"n","o","d","e","_","m","o","d","u","l","e","s","/">>
s_hidden       == <<"/",".">>
s_dot          == <<".">>
s_build        == <<"/","b","u","i","l","d","/">>
s_dist         == <<"/","d","i","s","t","/">>
s_zip          == <<".","z","i","p">>
s_js           == <<".","j","s">>
s_jsx          == <<".","j","s","x">>
s_ts           == <<".","t","s">>
s_tsx          == <<".","t","s","x">>

\* path.match(/\.(js|jsx|ts|tsx)$/) (App.jsx:1042, 1055)
MatchesSource(path) ==
    \E suffix \in {s_js, s_jsx, s_ts, s_tsx} : endsWith(path, suffix)

\* the callback of allPaths.filter (App.jsx:1035-1044)
IsValidPath(entry) ==
    /\ ~entry.dir
    /\ ~includes(entry.path, s_node_modules)
    /\ ~includes(entry.path, s_hidden)
    /\ ~startsWith(entry.path, s_dot)
    /\ ~includes(entry.path, s_build)
    /\ ~includes(entry.path, s_dist)
    /\ MatchesSource(entry.path)

\* an entry of contents.files: its path, whether it is a directory, and the
\* sample file that zipEntry.async('string') yields
ZipEntry(path, dir, content) == [path |-> path, dir |-> dir, content |-> content]

\* sample paths of archive entries and names of uploaded files
p_src            == <<"s","r","c","/">>
p_src_App        == <<"s","r","c","/","A","p","p",".","j","s","x">>
p_build_index    == <<"b","u","i","l","d","/","i","n","d","e","x",".","j","s">>
p_src_build      == <<"s","r","c","/","b","u","i","l","d","/","a",".","j","s">>
p_dist_x         == <<"d","i","s","t","/","x",".","t","s">>
p_src_dist       == <<"s","r","c","/","d","i","s","t","/","x",".","t","s">>
p_node_modules   == <<"n","o","d","e","_","m","o","d","u","l","e","s","/","a",".","j","s">>
p_nested_modules == <<"s","r","c","/","n","o","d","e","_","m","o","d","u","l","e","s","/","a",".","j","s">>
p_dotfile        == <<".","e","s","l","i","n","t","r","c",".","j","s">>
p_dotdir         == <<"s","r","c","/",".","x","/","a",".","j","s">>
p_readme         == <<"r","e","a","d","m","e",".","m","d">>
p_util           == <<"l","i","b","/","u","t","i","l",".","t","s","x">>
f_project_zip    == <<"p","r","o","j","e","c","t",".","z","i","p">>
f_lib_zip        == <<"l","i","b",".","z","i","p">>
f_docs_zip       == <<"d","o","c","s",".","z","i","p">>
f_App            == <<"A","p","p",".","j","s","x">>
f_blank          == <<"x",".","j","s">>
f_bad            == <<"b","a","d",".","t","s">>
f_readme         == <<"r","e","a","d","m","e",".","m","d">>

\* a File of the upload: file.name, the entries JSZip finds in it
\* (contents.files) and the sample file that file.text() yields
File(name, entries, content) ==
    [name |-> name, entries |-> entries, content |-> content]

ProjectZip ==
    File(f_project_zip,
         <<ZipEntry(p_src, TRUE, "empty"),
           ZipEntry(p_src_App, FALSE, "pair"),
           ZipEntry(p_build_index, FALSE, "plain"),
           ZipEntry(p_src_build, FALSE, "hooks"),
           ZipEntry(p_dist_x, FALSE, "jsx"),
           ZipEntry(p_src_dist, FALSE, "hooks"),
           ZipEntry(p_node_modules, FALSE, "hooks"),
           ZipEntry(p_nested_modules, FALSE, "hooks"),
           ZipEntry(p_dotfile, FALSE, "plain"),
           ZipEntry(p_dotdir, FALSE, "plain"),
           ZipEntry(p_readme, FALSE, "empty")>>,
         "empty")
LibZip == File(f_lib_zip, <<ZipEntry(p_util, FALSE, "twice")>>, "empty")
DocsZip == File(f_docs_zip, <<ZipEntry(p_readme, FALSE, "empty")>>, "empty")
AppFile == File(f_App, <<>>, "pair")
BlankFile == File(f_blank, <<>>, "blank")
BadFile == File(f_bad, <<>>, "syntax")
ReadmeFile == File(f_readme, <<>>, "empty")

\* the files a drop or a file input can hand to processFiles
UploadedFile ==
    {ProjectZip, LibZip, DocsZip, AppFile, BlankFile, BadFile, ReadmeFile}

\* number of files of one upload
MaxUploads == 2

\* e.dataTransfer.files / e.target.files with length > 0 (App.jsx:1174, 1180)
Uploads ==
    UNION {[1..n -> UploadedFile] : n \in 1..MaxUploads}

\* file.name.endsWith('.zip') (App.jsx:1030)
IsZip(file) == endsWith(file.name, s_zip)

\* the files the loop passes without an await: neither branch of
\* App.jsx:1030, 1055 is taken
RECURSIVE SkipOthers(_)
SkipOthers(files) ==
    IF files = <<>> \/ IsZip(Head(files)) \/ MatchesSource(Head(files).name)
    THEN files
    ELSE SkipOthers(Tail(files))

\* const validPaths = allPaths.filter(...) (App.jsx:1034-1044)
ValidPaths(file) ==
    LET valid == SelectSeq(file.entries, IsValidPath)
    IN [k \in DOMAIN valid |-> valid[k].path]

\* contents.files[path] (App.jsx:1050)
EntryAt(file, path) == CHOOSE entry \in Range(file.entries) : entry.path = path

\* the values of currentStep (App.jsx:1025, 1062, 1069, 1079, 1152), by
\* their meaning
StepReading == "reading files"
StepAst == "converting to AST"
StepMetrics == "computing metrics"
StepResults == "building results"
StepDone == "done"

\* setProgress(v) for each v of calls, in order; progressLog keeps the values
\* set by the run of processFiles under way or last finished
SetProgress(calls) ==
    /\ progress' = IF calls = <<>> THEN progress ELSE calls[Len(calls)]
    /\ progressLog' = (IF pc = "idle" THEN <<>> ELSE progressLog) \o calls

\* the loop over uploadedFiles runs on from the files given until its next
\* await; when no file is left it is followed by App.jsx:1061-1064
ReadFrom(files, list, calls, step) ==
    LET rest == SkipOthers(files) IN
    /\ uploadedFiles' = rest
    /\ fileList' = list
    /\ validPaths' = <<>>
    /\ zipIndex' = 0
    /\ IF rest = <<>>
       THEN /\ SetProgress(calls \o <<25>>)
            /\ currentStep' = StepAst
            /\ pc' = "ast"
       ELSE /\ SetProgress(calls)
            /\ currentStep' = step
            /\ pc' = IF IsZip(Head(rest)) THEN "loadAsync" ELSE "text"

\* the variables of one analyzeCode call, which processFiles does not touch
callVars == <<code, stack, currentFunction, analysis, functionDependencies,
              allDefinedFunctions, functionTypes, error, result, ghost>>

InitApp ==
    /\ pc = "idle"
    /\ code = [lines |-> 0, vocab |-> "none"]
    /\ stack = <<>>
    /\ currentFunction = NoName
    /\ analysis = NoRecord
    /\ functionDependencies = EmptyObject
    /\ allDefinedFunctions = {}
    /\ functionTypes = EmptyObject
    /\ error = ""
    /\ result = NoRecord
    /\ ghost = [nodes |-> 0, logicals |-> 0, declarations |-> 0,
                refs |-> EmptyObject, raised |-> FALSE]
    /\ analysisResults = <<>>
    /\ summary = NoRecord
    /\ AppMounted

\* handleDrop / handleFileInput call processFiles (App.jsx:1169-1183), which
\* runs to its first await (App.jsx:1023-1032, 1056)
ProcessFiles ==
    /\ pc = "idle"
    /\ screen = "upload"
    /\ \E files \in Uploads :
          /\ screen' = "analyzing"
          /\ ReadFrom(files, <<>>, <<0>>, StepReading)
    /\ analysisResults' = <<>>
    /\ summary' = NoRecord
    /\ UNCHANGED <<results, timers>>
    /\ UNCHANGED callVars

\* zip.loadAsync(file) resolves: the entries are filtered and the loop over
\* validPaths runs to its first await (App.jsx:1032-1051)
LoadAsync ==
    /\ pc = "loadAsync"
    /\ LET valid == ValidPaths(Head(uploadedFiles)) IN
       IF valid = <<>>
       THEN ReadFrom(Tail(uploadedFiles), fileList, <<10>>, currentStep)
       ELSE /\ validPaths' = valid
            /\ zipIndex' = 0
            /\ SetProgress(<<10>>)
            /\ pc' = "entry"
            /\ UNCHANGED <<uploadedFiles, fileList, currentStep>>
    /\ UNCHANGED <<screen, results, timers, analysisResults, summary>>
    /\ UNCHANGED callVars

\* zipEntry.async('string') resolves (App.jsx:1051-1054)
ZipEntryAsync ==
    /\ pc = "entry"
    /\ LET path == validPaths[zipIndex + 1]
           content == EntryAt(Head(uploadedFiles), path).content
           list == Append(fileList, [name |-> path, content |-> content])
           value == 10 + MathRound(zipIndex * 15, Len(validPaths))
       IN IF zipIndex + 1 < Len(validPaths)
          THEN /\ fileList' = list
               /\ zipIndex' = zipIndex + 1
               /\ SetProgress(<<value>>)
               /\ UNCHANGED <<pc, uploadedFiles, validPaths, currentStep>>
          ELSE ReadFrom(Tail(uploadedFiles), list, <<value>>, currentStep)
    /\ UNCHANGED <<screen, results, timers, analysisResults, summary>>
    /\ UNCHANGED callVars

\* file.text() resolves (App.jsx:1056-1057)
Text ==
    /\ pc = "text"
    /\ LET file == Head(uploadedFiles)
       IN ReadFrom(Tail(uploadedFiles),
                   Append(fileList, [name |-> file.name, content |-> file.content]),
                   <<>>, currentStep)
    /\ UNCHANGED <<screen, results, timers, analysisResults, summary>>
    /\ UNCHANGED callVars

\* the promise of zip.loadAsync, zipEntry.async or file.text is rejected (a
\* file that is no archive, a damaged entry, a file that cannot be read):
\* nothing catches it and the promise of processFiles is rejected
ReadRejects ==
    /\ pc \in {"loadAsync", "entry", "text"}
    /\ pc' = "rejected"
    /\ UNCHANGED <<analysisVars, appVars>>

\* the first pause ends (App.jsx:1064-1066)
Ast ==
    /\ pc = "ast"
    /\ SetProgress(<<40>>)
    /\ pc' = "ast2"
    /\ UNCHANGED <<screen, results, currentStep, uploadedFiles, fileList,
                   validPaths, zipIndex, timers, analysisResults, summary>>
    /\ UNCHANGED callVars

\* analyzeCode(fileList[i].content, fileList[i].name) (App.jsx:1072)
AnalyzeEntry(file) ==
    [analyzeCode(file.content) EXCEPT !.filename = file.name]

\* the analysis loop runs on with the records given until its next await
\* (App.jsx:1071-1076); when no file is left it is followed by
\* App.jsx:1079-1081
AnalyzeFrom(records, calls) ==
    IF Len(records) = Len(fileList)
    THEN /\ analysisResults' = records
         /\ SetProgress(calls \o <<80>>)
         /\ currentStep' = StepResults
         /\ pc' = "results"
    ELSE LET record == AnalyzeEntry(fileList[Len(records) + 1])
             value == 50 + MathRound(Len(records) * 25, Len(fileList))
         IN IF ScoreThrows(record)
            THEN /\ analysisResults' = records
                 /\ SetProgress(calls)
                 /\ currentStep' = StepMetrics
                 /\ pc' = "rejected"
            ELSE /\ analysisResults' =
                       Append(records,
                              record @@ [qualityScore |->
                                            calculateQualityScore(record)])
                 /\ SetProgress(calls \o <<value>>)
                 /\ currentStep' = StepMetrics
                 /\ pc' = "metrics"

\* the second pause ends (App.jsx:1066-1076)
Ast2 ==
    /\ pc = "ast2"
    /\ AnalyzeFrom(<<>>, <<50>>)
    /\ UNCHANGED <<screen, results, uploadedFiles, fileList, validPaths,
                   zipIndex, timers, summary>>
    /\ UNCHANGED callVars

\* the pause of an iteration ends (App.jsx:1076)
Metrics ==
    /\ pc = "metrics"
    /\ AnalyzeFrom(analysisResults, <<>>)
    /\ UNCHANGED <<screen, results, uploadedFiles, fileList, validPaths,
                   zipIndex, timers, summary>>
    /\ UNCHANGED callVars

\* App.jsx:1081-1083
Results ==
    /\ pc = "results"
    /\ SetProgress(<<90>>)
    /\ pc' = "results2"
    /\ UNCHANGED <<screen, results, currentStep, uploadedFiles, fileList,
                   validPaths, zipIndex, timers, analysisResults, summary>>
    /\ UNCHANGED callVars

\* variant of StoredDep: dependencyMap[key] = dep, the edge object of the
\* record itself
StoredDep_Shared(owner, dep) == [owner |-> owner, dep |-> dep]

\* dependencyMap[key] = { ...dep } (App.jsx:1115): the object stored is a new
\* one, part of no record (owner 0), with the fields of dep
StoredDep(owner, dep) == [owner |-> 0, dep |-> dep]

\* r.dependencyAnalysis.dependencies.forEach(...) (App.jsx:1110-1117) for the
\* record at index k, with the objects written to: heap.files are the
\* records, heap.entries the objects held by dependencyMap; count += writes
\* to the object held, which is an edge of record `owner` unless owner is 0
RECURSIVE MergeInto(_, _, _)
MergeInto(heap, k, deps) ==
    IF deps = {} THEN heap
    ELSE LET dep == CHOOSE d \in deps : TRUE
             key == DependencyKey(dep)
             held == heap.entries[key]
             sum == [held.dep EXCEPT !.count = @ + dep.count]
         IN MergeInto(
              IF key \in DOMAIN heap.entries
              THEN [files |->
                       IF held.owner = 0 THEN heap.files
                       ELSE [heap.files EXCEPT
                               ![held.owner].dependencyAnalysis.dependencies =
                                   (@ \ {held.dep}) \cup {sum}],
                    entries |-> [heap.entries EXCEPT ![key].dep = sum]]
              ELSE [files |-> heap.files,
                    entries |-> Put(heap.entries, key, StoredDep(k, dep))],
              k, deps \ {dep})

\* analysisResults after validResults.forEach (App.jsx:1086, 1100-1119)
RecordsAfterMerge(records) ==
    LET F[i \in 0..Len(records)] ==
            IF i = 0 THEN [files |-> records, entries |-> EmptyObject]
            ELSE IF /\ IsValidResult(records[i])
                    /\ "dependencyAnalysis" \in DOMAIN records[i]
            THEN MergeInto(F[i - 1], i,
                           F[i - 1].files[i].dependencyAnalysis.dependencies)
            ELSE F[i - 1]
    IN F[Len(records)].files

\* App.jsx:1083-1156: the summary is built, results are set and the timer
\* is started; processFiles returns
SetResults ==
    /\ pc = "results2"
    /\ SetProgress(<<100>>)
    /\ summary' = Summary(analysisResults)
    /\ analysisResults' = RecordsAfterMerge(analysisResults)
    /\ results' = [files |-> analysisResults', summary |-> summary']
    /\ currentStep' = StepDone
    /\ timers' = timers + 1
    /\ pc' = "idle"
    /\ UNCHANGED <<screen, uploadedFiles, fileList, validPaths, zipIndex>>
    /\ UNCHANGED callVars

\* the callback of setTimeout (App.jsx:1154-1156)
Timeout ==
    /\ timers > 0
    /\ timers' = timers - 1
    /\ screen' = "results"
    /\ UNCHANGED <<pc, analysisVars, results, progress, progressLog,
                   currentStep, uploadedFiles, fileList, validPaths, zipIndex>>

\* variant of resetApp: results are kept
resetApp_KeepsResults ==
    /\ screen = "results"
    /\ results # NoRecord
    /\ screen' = "upload"
    /\ progress' = 0
    /\ currentStep' = ""
    /\ UNCHANGED <<pc, analysisVars, results, progressLog, uploadedFiles,
                   fileList, validPaths, zipIndex, timers>>

\* the back button of the results screen (App.jsx:1185-1190, 1319)
resetApp ==
    /\ screen = "results"
    /\ results # NoRecord
    /\ screen' = "upload"
    /\ results' = NoRecord
    /\ progress' = 0
    /\ currentStep' = ""
    /\ UNCHANGED <<pc, analysisVars, progressLog, uploadedFiles, fileList,
                   validPaths, zipIndex, timers>>

NextApp ==
    \/ ProcessFiles
    \/ LoadAsync
    \/ ZipEntryAsync
    \/ Text
    \/ ReadRejects
    \/ Ast
    \/ Ast2
    \/ Metrics
    \/ Results
    \/ SetResults
    \/ Timeout
    \/ resetApp

SpecApp == InitApp /\ [][NextApp]_vars
----------------------------------------------------------------------------
(* The values drawn on the results screen (App.jsx:1298-1312)              *)

\* a JavaScript number num / den; 0 / 0 is NaN
Number(num, den) == [num |-> num, den |-> den]
IsNaN(v) == v.den = 0

\* Math.min(100, v): NaN if v is NaN
MathMin100(v) ==
    IF IsNaN(v) \/ v.num <= 100 * v.den THEN v ELSE Number(100, 1)

\* const qualityBarData (App.jsx:1299-1304), by its values
qualityBarData(s) ==
    <<MathMin100(Number(s.avgCyclomaticComplexity * 10, 1)),
      MathMin100(Number(100 * s.totalFiles - 2 * s.totalVariables, s.totalFiles)),
      MathMin100(Number(s.totalEventHandlers * 15, 1)),
      Number(s.avgMaintainabilityIndex, 1)>>

\* const radarData (App.jsx:1306-1312), by its values
radarData(s) ==
    <<MathMin100(Number(s.totalLOC, 10)),
      MathMin100(Number(s.avgCyclomaticComplexity * 10, 1)),
      MathMin100(Number(s.totalCBO * 5, 1)),
      MathMin100(Number(s.totalWMC * 5, 1)),
      Number(s.avgMaintainabilityIndex, 1)>>
----------------------------------------------------------------------------
(* Properties                                                              *)

IsErrorRecord(record) == "error" \in DOMAIN record
IsSuccessRecord(record) == "metrics" \in DOMAIN record /\ ~IsErrorRecord(record)
Returned == pc \in {"returned", "scored", "rejected"}
HasAnalysis == "metrics" \in DOMAIN analysis
NoDuplicates(array) ==
    \A i, j \in DOMAIN array : array[i] = array[j] => i = j

\* cyclomaticComplexity >= 1 and
\* == 1 + branches + loops + visited && / || expressions
CyclomaticSum(a) ==
    /\ a.metrics.cyclomaticComplexity >= 1
    /\ a.metrics.cyclomaticComplexity =
          1 + a.complexity.branches + a.complexity.loops + ghost.logicals

\* C1: at every point of the traversal and in the returned success record,
\* cyclomaticComplexity >= 1 and equals 1 + branches + loops + the number of
\* visited && / || expressions; it starts at 1 and no step of the traversal
\* decreases it.
C1_CyclomaticComplexity ==
    /\ [](/\ pc = "call" => analysis.metrics.cyclomaticComplexity = 1
          /\ HasAnalysis => CyclomaticSum(analysis)
          /\ Returned /\ IsSuccessRecord(result) => CyclomaticSum(result))
    /\ [][HasAnalysis =>
            analysis'.metrics.cyclomaticComplexity
                >= analysis.metrics.cyclomaticComplexity]_vars

\* C1 witness: a returned record of a tree with a branch, a loop and a
\* logical expression
C1_Witness ==
    /\ pc = "returned"
    /\ IsSuccessRecord(result)
    /\ result.complexity.branches = 1
    /\ result.complexity.loops = 1
    /\ ghost.logicals = 1
    /\ result.metrics.cyclomaticComplexity = 4

\* C2: every qualityScore that calculateQualityScore returns is an integer
\* in [0,100], and the maintainabilityIndex of every success record is an
\* integer in [0,100].
C2_ScoresInRange ==
    /\ pc = "scored" => result.qualityScore \in 0..100
    /\ Returned /\ IsSuccessRecord(result) =>
          result.metrics.maintainabilityIndex \in 0..100

\* C2 witness: a scored success record on which both clamps at 0 act
C2_Witness ==
    /\ pc = "scored"
    /\ IsSuccessRecord(result)
    /\ result.loc = 3000
    /\ Len(result.issues) = MaxIssues
    /\ result.metrics.maintainabilityIndex = 0
    /\ result.qualityScore = 0

Clamp(lo, hi, x) == IF x < lo THEN lo ELSE IF x > hi THEN hi ELSE x

\* the score as section 4.3 of the specification states it
StatedScore(r) ==
    Clamp(0, 100,
          100 - Min(30, 2 * r.metrics.cyclomaticComplexity)
              - Min(15, r.complexity.depth)
              - 10 * Len(r.issues)
              - (IF r.loc > 300 THEN 10 ELSE 0)
              - (IF r.loc > 500 THEN 10 ELSE 0)
              + (IF Len(r.hooks) >= 1 /\ Len(r.components) >= 1 THEN 5 ELSE 0))

\* C3: for every success record calculateQualityScore returns
\* clamp(0, 100, 100 - min(30, 2 CC) - min(15, maxDepth) - 10 issueCount
\*   - (10 if LOC > 300) - (10 more if LOC > 500)
\*   + (5 if at least one hook and at least one component)).
C3_QualityScoreFormula ==
    pc = "scored" /\ IsSuccessRecord(result) =>
        result.qualityScore = StatedScore(result)

\* C3 witness: a scored record with both size penalties, a saturated
\* complexity penalty, the bonus, and a score the clamp leaves alone
C3_Witness ==
    /\ pc = "scored"
    /\ IsSuccessRecord(result)
    /\ result.loc > 500
    /\ result.metrics.cyclomaticComplexity = MaxCC
    /\ result.complexity.depth = MaxDepthDrawn
    /\ Len(result.hooks) > 0 /\ Len(result.components) > 0
    /\ Len(result.issues) = 1
    /\ result.qualityScore = 30

\* a success record of a file without branching node, looping node or
\* && / || expression, without security issue and of at most 300 lines
C4_PlainFile(r) ==
    /\ IsSuccessRecord(r)
    /\ r.complexity.branches = 0
    /\ r.complexity.loops = 0
    /\ ghost.logicals = 0
    /\ Len(r.issues) = 0
    /\ r.loc <= 300

\* C4 as stated: such a file has cyclomaticComplexity 1 and qualityScore
\* exactly 100.
C4_PlainFileScores100 ==
    pc = "scored" /\ C4_PlainFile(result) =>
        /\ result.metrics.cyclomaticComplexity = 1
        /\ result.qualityScore = 100

\* C4 amended: such a file has cyclomaticComplexity 1 and qualityScore
\* 98 - min(15, maxDepth), plus 5 (capped at 100) when it has a hook and a
\* component; without the bonus it is at most 98.
C4_PlainFileScore ==
    pc = "scored" /\ C4_PlainFile(result) =>
        /\ result.metrics.cyclomaticComplexity = 1
        /\ result.qualityScore =
              IF Len(result.hooks) > 0 /\ Len(result.components) > 0
              THEN Min(100, 103 - Min(15, result.complexity.depth))
              ELSE 98 - Min(15, result.complexity.depth)
        /\ (Len(result.hooks) = 0 \/ Len(result.components) = 0)
              => result.qualityScore <= 98

\* C4 witness: a scored plain file with a hook and a component, two levels
\* below the bonus cap
C4_Witness ==
    /\ pc = "scored"
    /\ C4_PlainFile(result)
    /\ Len(result.hooks) > 0 /\ Len(result.components) > 0
    /\ result.complexity.depth = 4
    /\ result.qualityScore = 99

\* C5: every error record scores 0 without an exception and is counted as
\* errored by the filter of processFiles, whatever its message.
C5_ErrorRecordScoresZero ==
    IsErrorRecord(result) =>
        /\ pc # "rejected"
        /\ ~IsValidResult(result)
        /\ pc = "scored" => result.qualityScore = 0

ErrorFields == {"filename", "error", "loc", "analysisTime"}
SuccessFields ==
    {"filename", "functions", "variables", "eventHandlers", "components",
     "hooks", "imports", "exports", "complexity", "issues", "loc", "metrics",
     "dependencyAnalysis", "analysisTime"}

\* C6: analyzeCode returns a record for every input and lets no exception
\* escape: when the parser or the traversal raised, the record holds only
\* filename, loc, error and analysisTime; otherwise it holds every analytical
\* field and no error field. No record is both.
C6_ErrorOrSuccessRecord ==
    /\ ghost.raised => pc \in {"catch", "returned", "scored", "rejected"}
    /\ pc = "returned" /\ ghost.raised =>
          /\ DOMAIN result = ErrorFields
          /\ result.error = error
          /\ result.filename = Filename
          /\ result.loc = code.lines
    /\ pc = "returned" /\ ~ghost.raised =>
          /\ DOMAIN result = SuccessFields
          /\ {"dependencies", "functionTypes", "components", "allFunctions"}
                \subseteq DOMAIN result.dependencyAnalysis
          /\ result.filename = Filename
          /\ result.loc = code.lines
    /\ Returned => ~(IsErrorRecord(result) /\ "metrics" \in DOMAIN result)

\* C6 witness: the traversal raised after it had registered a function, and
\* analyzeCode returned an error record
C6_Witness ==
    /\ pc = "returned"
    /\ ghost.raised
    /\ error = StackMessage
    /\ Len(analysis.functions) > 0
    /\ IsErrorRecord(result)

\* C7: in every success record functions holds each name once, wmc is the
\* number of function-like declarations registered during the walk, and
\* functions.length <= wmc.
C7_FunctionsAndWmc ==
    Returned /\ IsSuccessRecord(result) =>
        /\ NoDuplicates(result.functions)
        /\ Range(result.functions) = allDefinedFunctions
        /\ result.metrics.wmc = ghost.declarations
        /\ Len(result.functions) <= result.metrics.wmc

\* C7 witness: one name declared three times
C7_Witness ==
    /\ pc = "returned"
    /\ IsSuccessRecord(result)
    /\ Len(result.functions) = 1
    /\ result.metrics.wmc = 3

\* C8: in every success record functions, variables, components, hooks and
\* eventHandlers each hold any name at most once.
C8_NameListsDuplicateFree ==
    Returned /\ IsSuccessRecord(result) =>
        /\ NoDuplicates(result.functions)
        /\ NoDuplicates(result.variables)
        /\ NoDuplicates(result.components)
        /\ NoDuplicates(result.hooks)
        /\ NoDuplicates(result.eventHandlers)

C9_Capitals ==
    {"A","B","C","D","E","F","G","H","I","J","K","L","M",
     "N","O","P","Q","R","S","T","U","V","W","X","Y","Z"}

C9_Kind(name) ==
    IF Len(name) >= 1 /\ name[1] \in C9_Capitals THEN "component"
    ELSE IF \/ /\ Len(name) >= 7
               /\ SubSeq(name, 1, 6) = <<"h","a","n","d","l","e">>
               /\ name[7] \in C9_Capitals
            \/ /\ Len(name) >= 3
               /\ SubSeq(name, 1, 2) = <<"o","n">>
               /\ name[3] \in C9_Capitals
    THEN "handler"
    ELSE "helper"

C9_Classified(a) ==
    /\ Range(a.functions) = allDefinedFunctions
    /\ DOMAIN functionTypes = allDefinedFunctions
    /\ \A name \in allDefinedFunctions :
          /\ functionTypes[name] = C9_Kind(name)
          /\ name \in Range(a.components) <=> C9_Kind(name) = "component"
          /\ name \in Range(a.eventHandlers) <=> C9_Kind(name) = "handler"
    /\ Range(a.components) \cap Range(a.eventHandlers) = {}
    /\ Range(a.components) \subseteq Range(a.functions)
    /\ Range(a.eventHandlers) \subseteq Range(a.functions)
    /\ n_OnFoo \in allDefinedFunctions =>
          /\ n_OnFoo \in Range(a.components)
          /\ n_OnFoo \notin Range(a.eventHandlers)

\* C9: every registered function-like declaration has exactly one kind,
\* decided by its name: component if ^[A-Z], otherwise handler if
\* ^(handle|on)[A-Z], otherwise helper; OnFoo is a component and no handler,
\* components and eventHandlers are disjoint subsets of functions; the same
\* for function declarations and for arrow / function-expression declarators.
C9_Classification ==
    /\ HasAnalysis => C9_Classified(analysis)
    /\ Returned /\ IsSuccessRecord(result) => C9_Classified(result)

\* C9 witness: OnFoo, handleClick and only have been declared, one of them
\* by a declarator
C9_Witness ==
    /\ pc = "returned"
    /\ IsSuccessRecord(result)
    /\ allDefinedFunctions = {n_OnFoo, n_handleClick, n_only}
    /\ result.components = <<n_OnFoo>>
    /\ result.eventHandlers = <<n_handleClick>>
    /\ functionTypes[n_only] = "helper"

\* the step visits a call whose callee is a member expression or an
\* identifier of the denylist
C10_DenylistedCallStep ==
    \E key \in DOMAIN ghost'.refs :
        /\ \/ key[2] = "member"
           \/ key[2] = "call" /\ key[3] \in builtins
        /\ \/ key \notin DOMAIN ghost.refs
           \/ ghost'.refs[key] > ghost.refs[key]

\* C10: a call whose callee is a member expression or a bare identifier of
\* the built-in denylist adds or increments no dependency edge, in any
\* scope, also when the file declares a function of that name.
C10_BuiltinCallAddsNoEdge ==
    [][C10_DenylistedCallStep =>
            functionDependencies' = functionDependencies]_vars

\* C10 witness: the file declares fetch, and Button has called fetch() and
\* a member expression; Button has no edge
C10_Witness ==
    /\ n_fetch \in allDefinedFunctions
    /\ <<n_Button, "call", n_fetch>> \in DOMAIN ghost.refs
    /\ <<n_Button, "member", NoName>> \in DOMAIN ghost.refs
    /\ functionDependencies[n_Button] = EmptyObject

\* the edges of a returned success record
Dependencies(r) == r.dependencyAnalysis.dependencies

\* how often the tree, as far as visited, referred to name from inside the
\* declaration scope, by a reference of the given kind
Refs(scope, via, name) ==
    IF <<scope, via, name>> \in DOMAIN ghost.refs
    THEN ghost.refs[<<scope, via, name>>] ELSE 0

\* C11 as stated: no edge of a record has a `to` of the built-in denylist,
\* whether the reference was a call or a capitalized JSX tag.
C11_NoEdgeToBuiltin ==
    Returned /\ IsSuccessRecord(result) =>
        \A e \in Dependencies(result) : e.to \notin builtins

\* C11 amended: no call expression produces an edge to a name of the
\* denylist; an edge to such a name exists only where the scope used it as a
\* capitalized JSX tag (<Map/> inside a declared function does produce one).
C11_BuiltinEdgeOnlyFromJSX ==
    Returned /\ IsSuccessRecord(result) =>
        \A e \in Dependencies(result) :
            e.to \in builtins =>
                /\ TestComponent(e.to)
                /\ Refs(e.from, "jsx", e.to) > 0
                /\ e.count = 2 * Refs(e.from, "jsx", e.to)

\* C11 witness: Button called Map() and rendered <Map/>; the record has the
\* edge Button -> Map, and the call added nothing to it
C11_Witness ==
    /\ pc = "returned"
    /\ IsSuccessRecord(result)
    /\ Refs(n_Button, "call", n_Map) = 1
    /\ Refs(n_Button, "jsx", n_Map) = 1
    /\ \E e \in Dependencies(result) : e.from = n_Button /\ e.to = n_Map

\* the patterns as the claim words them
C12_StatedHook(name) == startsWith(name, <<"u","s","e">>)

C12_StatedSetter(name) ==
    /\ startsWith(name, <<"s","e","t">>)
    /\ Len(name) >= 5
    /\ IsUpperAZ(name[4])

\* the bare-identifier calls the history has seen inside a declaration
C12_Calls == {k \in DOMAIN ghost.refs : k[1] # NoName /\ k[2] = "call"}

\* C12 as stated: a call inside a scope to another function outside the
\* denylist is kept out of the dependency map exactly when its name is a hook
\* name (use...) or a setter name (set, an uppercase letter, and at least one
\* more character); when the callee is declared in the file, the record has
\* the edge.
C12_EdgeUnlessHookOrSetter ==
    /\ pc = "post" =>
        \A k \in C12_Calls :
            k[3] # k[1] /\ k[3] \notin builtins =>
                (k[3] \in DOMAIN functionDependencies[k[1]]
                 <=> ~(C12_StatedHook(k[3]) \/ C12_StatedSetter(k[3])))
    /\ Returned /\ IsSuccessRecord(result) =>
        \A k \in C12_Calls :
            (/\ k[3] # k[1]
             /\ k[3] \notin builtins
             /\ k[3] \in Range(result.dependencyAnalysis.allFunctions)
             /\ ~(C12_StatedHook(k[3]) \/ C12_StatedSetter(k[3])))
            => \E e \in Dependencies(result) : e.from = k[1] /\ e.to = k[3]

\* the (from, to) pairs the walk has accumulated
C13_Accumulated ==
    UNION {{<<from, to>> : to \in DOMAIN functionDependencies[from]} :
              from \in DOMAIN functionDependencies}

\* the file is the scenario: Button and handleClick declared once each, one
\* call of handleClick inside Button, nothing else
C13_Scenario ==
    /\ ghost.nodes = 3
    /\ ghost.declarations = 2
    /\ ghost.refs = BagAdd(EmptyObject, <<n_Button, "call", n_handleClick>>)
    /\ Range(result.functions) = {n_Button, n_handleClick}

\* C13: an accumulated pair is an edge of the record iff `to` is a function
\* the file declares (wherever the declaration stands) or starts with an
\* uppercase letter; the scenario file yields functions {Button, handleClick},
\* components {Button} and the single edge Button -> handleClick, count 1.
C13_RetainedEdges ==
    Returned /\ IsSuccessRecord(result) =>
        /\ {<<e.from, e.to>> : e \in Dependencies(result)}
             = {p \in C13_Accumulated :
                  \/ p[2] \in Range(result.dependencyAnalysis.allFunctions)
                  \/ IsUpperAZ(p[2][1])}
        /\ C13_Scenario =>
             /\ result.components = <<n_Button>>
             /\ Cardinality(Dependencies(result)) = 1
             /\ \A e \in Dependencies(result) :
                    e.from = n_Button /\ e.to = n_handleClick /\ e.count = 1

\* C13 witness: a record of the scenario file
C13_Witness ==
    /\ pc = "returned"
    /\ IsSuccessRecord(result)
    /\ C13_Scenario
    /\ Dependencies(result) # {}

\* a bare-identifier call from scope `from` that the call branch counts
C14_Qualifies(from, to) ==
    to # from /\ to \notin builtins /\ ~isHook(to) /\ ~isSetState(to)

\* the references of the tree from scope `from` to `to`: qualifying calls and
\* capitalized JSX elements, one each
C14_References(from, to) ==
    (IF C14_Qualifies(from, to) THEN Refs(from, "call", to) ELSE 0)
    + (IF TestComponent(to) THEN Refs(from, "jsx", to) ELSE 0)

\* C14 as stated: at most one edge per (from, to), with count >= 1 equal to
\* the number of references from scope `from` to `to`, a qualifying call and
\* a capitalized JSX element (<Child/> written once) counting 1 each.
C14_CountIsReferences ==
    Returned /\ IsSuccessRecord(result) =>
        \A e \in Dependencies(result) :
            /\ \A d \in Dependencies(result) :
                   d.from = e.from /\ d.to = e.to => d = e
            /\ e.count >= 1
            /\ e.count = C14_References(e.from, e.to)

\* C15: while the subtree of a named function-like declaration F is walked,
\* currentFunction is F, also inside anonymous functions and after a nested
\* declaration G has been left; inside G it is G; every accumulated pair has
\* a reference in its `from` scope and every counted call is under its scope;
\* when traverse(ast.program) has returned, currentFunction is null again.
C15_ScopeDiscipline ==
    /\ pc = "walk" => currentFunction = EnclosingFunction(stack)
    /\ pc = "post" => currentFunction = NoName
    /\ pc \in {"walk", "post"} =>
        /\ \A p \in C13_Accumulated :
               Refs(p[1], "call", p[2]) + Refs(p[1], "jsx", p[2]) > 0
        /\ \A k \in C12_Calls :
               C14_Qualifies(k[1], k[3]) =>
                   /\ k[1] \in DOMAIN functionDependencies
                   /\ k[3] \in DOMAIN functionDependencies[k[1]]

\* C15 witness: Button { handleClick { Button() }  handleClick() }, just
\* after the second call was visited: the nested declaration has been left
\* and the call is counted under Button
C15_Witness ==
    /\ pc = "walk"
    /\ ghost.nodes = 4
    /\ ghost.declarations = 2
    /\ Len(stack) = 3
    /\ Top.pending # <<>>
    /\ analysis.complexity.depth = 3
    /\ currentFunction = n_Button
    /\ Refs(n_handleClick, "call", n_Button) = 1
    /\ Refs(n_Button, "call", n_handleClick) = 1
    /\ functionDependencies[n_Button][n_handleClick] = 1

\* the references the history has seen at file level, outside every
\* declaration: bare-identifier calls and capitalized JSX elements
C16_TopLevelRefs ==
    {k \in DOMAIN ghost.refs :
        /\ k[1] = NoName
        /\ \/ k[2] = "call" /\ C14_Qualifies(NoName, k[3])
           \/ k[2] = "jsx" /\ TestComponent(k[3])}

\* the sources under which the walk has recorded a reference to name
C16_Sources(name) ==
    {from \in DOMAIN functionDependencies :
        name \in DOMAIN functionDependencies[from]}

\* C16 as stated: a call or capitalized JSX usage in a top-level statement
\* is recorded under a file-scope sentinel as its source, not dropped: some
\* source that is no declaration of the file carries the reference.
C16_TopLevelRecorded ==
    pc = "post" =>
        \A k \in C16_TopLevelRefs :
            \E from \in C16_Sources(k[3]) : from \notin allDefinedFunctions

\* the number of visited nodes of one kind and name, over all scopes
RECURSIVE C17_Total(_)
C17_Total(keys) ==
    IF keys = {} THEN 0
    ELSE LET k == CHOOSE x \in keys : TRUE
         IN ghost.refs[k] + C17_Total(keys \ {k})

C17_Nodes(via, name) ==
    C17_Total({k \in DOMAIN ghost.refs : k[2] = via /\ k[3] = name})

C17_Issues(message) ==
    Cardinality({i \in DOMAIN analysis.issues :
                    analysis.issues[i].message = message})

\* C17: issues holds one entry of type 'security', severity 'high' for every
\* JSXAttribute named exactly dangerouslySetInnerHTML and one for every call
\* whose callee is the bare identifier eval, wherever nested, and no other
\* entry: its length is the number of such nodes.
C17_IssuesAreFlaggedNodes ==
    HasAnalysis /\ pc \in {"walk", "post", "returned", "scored", "rejected"}
                /\ ~ghost.raised =>
        /\ \A i \in DOMAIN analysis.issues :
               analysis.issues[i].type = "security"
               /\ analysis.issues[i].severity = "high"
        /\ C17_Issues("dangerouslySetInnerHTML")
               = C17_Nodes("attr", n_dangerouslySetInnerHTML)
        /\ C17_Issues("eval()") = C17_Nodes("call", n_eval)
        /\ Len(analysis.issues)
               = C17_Nodes("attr", n_dangerouslySetInnerHTML)
                 + C17_Nodes("call", n_eval)
        /\ Returned /\ IsSuccessRecord(result) =>
               result.issues = analysis.issues

\* C17 witness: a record with both kinds of issue, the eval() call inside
\* Button, next to an attribute that is not flagged
C17_Witness ==
    /\ pc = "returned"
    /\ IsSuccessRecord(result)
    /\ Len(result.issues) = 2
    /\ Refs(n_Button, "call", n_eval) = 1
    /\ C17_Nodes("attr", n_dangerouslySetInnerHTML) = 1
    /\ C17_Nodes("attr", n_onClick) = 1

\* the records without an error, and sums and unions over a list of records
C18_Successful == SelectSeq(analysisResults, IsSuccessRecord)

RECURSIVE C18_Sum(_, _, _)
C18_Sum(records, field, measure) ==
    IF records = <<>> THEN 0
    ELSE (CASE measure = "length" -> Len(Head(records)[field])
            [] measure = "metric" -> Head(records).metrics[field]
            [] measure = "value" -> Head(records)[field])
         + C18_Sum(Tail(records), field, measure)

RECURSIVE C18_Union(_, _)
C18_Union(records, field) ==
    IF records = <<>> THEN {}
    ELSE (IF field = "imports"
          THEN {i.source : i \in Range(Head(records).imports)}
          ELSE Range(Head(records)[field]))
         \cup C18_Union(Tail(records), field)

\* C18: in the summary totalFiles counts all records and totalLOC sums loc
\* over all of them, error records included; every other total and both
\* unions are taken over the records without an error, so that an error
\* record contributes to nothing but totalFiles and totalLOC.
C18_TotalsOverSuccessful ==
    pc = "summary" =>
        /\ summary.totalFiles = Len(analysisResults)
        /\ summary.totalLOC = C18_Sum(analysisResults, "loc", "value")
        /\ summary.totalFunctions = C18_Sum(C18_Successful, "functions", "length")
        /\ summary.totalVariables = C18_Sum(C18_Successful, "variables", "length")
        /\ summary.totalEventHandlers
              = C18_Sum(C18_Successful, "eventHandlers", "length")
        /\ summary.totalComponents
              = C18_Sum(C18_Successful, "components", "length")
        /\ summary.totalIssues = C18_Sum(C18_Successful, "issues", "length")
        /\ summary.totalCBO = C18_Sum(C18_Successful, "cbo", "metric")
        /\ summary.totalWMC = C18_Sum(C18_Successful, "wmc", "metric")
        /\ summary.totalAnalysisTime
              = C18_Sum(C18_Successful, "analysisTime", "value")
        /\ Range(summary.totalHooks) = C18_Union(C18_Successful, "hooks")
        /\ NoDuplicates(summary.totalHooks)
        /\ Range(summary.totalImports) = C18_Union(C18_Successful, "imports")
        /\ NoDuplicates(summary.totalImports)
        /\ \A f \in DOMAIN summary \ {"totalFiles", "totalLOC"} :
               summary[f] = Summary(C18_Successful)[f]

\* C18 witness: a summary of an upload with an error record (501 lines,
\* analysis time 1) between records with functions, hooks and imports
C18_Witness ==
    /\ pc = "summary"
    /\ Len(analysisResults) = 3
    /\ \E i \in DOMAIN analysisResults : IsErrorRecord(analysisResults[i])
    /\ summary.totalLOC >= 503
    /\ summary.totalFunctions > 0
    /\ summary.totalHooks # <<>>
    /\ summary.totalImports # <<>>

\* the fields of the summary that hold a number
C19_NumericFields ==
    {"totalFiles", "totalLOC", "totalFunctions", "totalVariables",
     "totalEventHandlers", "totalComponents", "totalIssues", "avgQualityScore",
     "avgCyclomaticComplexity", "avgMaintainabilityIndex", "totalCBO",
     "totalWMC", "totalAnalysisTime"}

\* C19: with no successful record (no record at all, or error records only)
\* building the summary does not fail and the three averages are 0; for the
\* empty list every numeric field is 0 and the merged dependency graph is
\* empty.
C19_NoSuccessfulRecord ==
    /\ pc = "files" => ENABLED Summarize
    /\ pc = "summary" /\ C18_Successful = <<>> =>
        /\ summary.avgQualityScore = 0
        /\ summary.avgCyclomaticComplexity = 0
        /\ summary.avgMaintainabilityIndex = 0
    /\ pc = "summary" /\ analysisResults = <<>> =>
        /\ \A f \in C19_NumericFields : summary[f] = 0
        /\ summary.totalHooks = <<>>
        /\ summary.totalImports = <<>>
        /\ summary.dependencyAnalysis =
              [allFunctions |-> <<>>, components |-> <<>>,
               dependencies |-> {}, functionTypes |-> EmptyObject]

\* C19 witness: the summary of an upload of error records only
C19_Witness ==
    /\ pc = "summary"
    /\ Len(analysisResults) = 2
    /\ \A i \in DOMAIN analysisResults : IsErrorRecord(analysisResults[i])
    /\ summary.totalLOC = 1002
    /\ summary.avgQualityScore = 0

\* the edges of record i of the upload (an error record has none), and the
\* count record i gives the pair (from, to)
C20_Edges(i) ==
    IF IsSuccessRecord(analysisResults[i])
    THEN Dependencies(analysisResults[i]) ELSE {}

RECURSIVE C20_Counts(_)
C20_Counts(edges) ==
    IF edges = {} THEN 0
    ELSE LET e == CHOOSE x \in edges : TRUE
         IN e.count + C20_Counts(edges \ {e})

C20_CountIn(i, from, to) ==
    C20_Counts({e \in C20_Edges(i) : e.from = from /\ e.to = to})

RECURSIVE C20_SumOverRecords(_, _, _)
C20_SumOverRecords(i, from, to) ==
    IF i = 0 THEN 0
    ELSE C20_CountIn(i, from, to) + C20_SumOverRecords(i - 1, from, to)

RECURSIVE C20_TotalOfRecords(_)
C20_TotalOfRecords(i) ==
    IF i = 0 THEN 0
    ELSE C20_Counts(C20_Edges(i)) + C20_TotalOfRecords(i - 1)

\* C20: the merged graph has exactly one edge for every (from, to) pair of a
\* successful record and no other edge; its count is the sum of the pair's
\* counts over the successful records, so the merged counts add up to the
\* per-file counts; nothing comes from an error record.
C20_MergedGraph ==
    pc = "summary" =>
        LET merged == summary.dependencyAnalysis.dependencies
            n == Len(analysisResults)
        IN /\ {<<e.from, e.to>> : e \in merged}
                = UNION {{<<e.from, e.to>> : e \in C20_Edges(i)} : i \in 1..n}
           /\ \A e, d \in merged : e.from = d.from /\ e.to = d.to => e = d
           /\ \A e \in merged :
                  e.count = C20_SumOverRecords(n, e.from, e.to)
           /\ C20_Counts(merged) = C20_TotalOfRecords(n)

\* C20 witness: two files with the edge Button -> handleClick (counts 1 and
\* 2) and an error record; the merged edge has count 3
C20_Witness ==
    /\ pc = "summary"
    /\ Len(analysisResults) = 3
    /\ \E i \in DOMAIN analysisResults : IsErrorRecord(analysisResults[i])
    /\ \E e \in summary.dependencyAnalysis.dependencies :
           e.from = n_Button /\ e.to = n_handleClick /\ e.count = 3

\* C25 as stated: no edge of a record has from = to; a function calling
\* itself and a component rendering itself as a JSX tag add nothing.
C25_NoSelfEdge ==
    Returned /\ IsSuccessRecord(result) =>
        \A e \in Dependencies(result) : e.from # e.to

\* the state transitions a record holds: analysis has no field for them
\* (App.jsx:24-51), so a record read for one yields none
C22_Transitions(record) ==
    IF "stateTransitions" \in DOMAIN record THEN record.stateTransitions
    ELSE <<>>

\* C22 as stated: where a component destructures useState into a state and
\* its setter, the record holds exactly one StateTransition per call of the
\* setter.
C22_TransitionPerSetterCall ==
    Returned /\ IsSuccessRecord(result)
             /\ Refs(n_Button, "call", n_useState) > 0 =>
        Len(C22_Transitions(result)) = Refs(n_Button, "call", n_setX)

\* the success records of the upload files, to be merged with a record
C26_OtherRecords ==
    {analyzeCode(name) : name \in {"pair", "twice", "jsx", "hooks", "plain"}}

C26_Kinds == {"component", "handler", "helper"}

\* C26: every edge of a record starts at a function the file declares; its
\* fromType and toType are component, handler or helper, each the
\* classification of the endpoint's name, as are the entries of
\* functionTypes; so two files give a name the same kind, and merging two
\* records yields the same functionTypes and the same edges in either order.
C26_EdgeKinds ==
    Returned /\ IsSuccessRecord(result) =>
        LET d == result.dependencyAnalysis IN
        /\ \A e \in d.dependencies :
              /\ e.from \in Range(d.allFunctions)
              /\ e.fromType \in C26_Kinds /\ e.fromType = C9_Kind(e.from)
              /\ e.toType \in C26_Kinds /\ e.toType = C9_Kind(e.to)
        /\ \A name \in DOMAIN d.functionTypes :
              d.functionTypes[name] = C9_Kind(name)
        /\ \A r \in C26_OtherRecords :
              LET ab == CombinedDependencyAnalysis(<<result, r>>)
                  ba == CombinedDependencyAnalysis(<<r, result>>)
              IN /\ \A name \in DOMAIN d.functionTypes
                                   \cap DOMAIN r.dependencyAnalysis.functionTypes :
                        d.functionTypes[name]
                            = r.dependencyAnalysis.functionTypes[name]
                 /\ ab.functionTypes = ba.functionTypes
                 /\ ab.dependencies = ba.dependencies

\* C26 witness: a record with an edge from a handler the file declares to
\* a capitalized name it does not declare
C26_Witness ==
    /\ pc = "returned"
    /\ IsSuccessRecord(result)
    /\ \E e \in Dependencies(result) :
           /\ e.fromType = "handler"
           /\ e.to \notin Range(result.dependencyAnalysis.allFunctions)
           /\ e.toType = "component"

\* the path lies in the folder of the given name ("/name/"), at the root of
\* the archive or below it
C24_InFolder(path, folder) ==
    startsWith(path, Tail(folder)) \/ includes(path, folder)

C24_Folders == {<<"/">> \o s_node_modules, s_build, s_dist}

C24_Hidden(path) == startsWith(path, s_dot) \/ includes(path, s_hidden)

\* C24: no entry of an archive that lies in a node_modules, build or dist
\* folder, at the root of the archive or deeper, is put on the file list, and
\* every name on the list is not hidden and ends in .js, .jsx, .ts or .tsx.
C24_ExcludedFolders ==
    \A k \in DOMAIN fileList :
        /\ \A folder \in C24_Folders : ~C24_InFolder(fileList[k].name, folder)
        /\ ~C24_Hidden(fileList[k].name)
        /\ MatchesSource(fileList[k].name)

\* C29: the values set by the setProgress calls of one run of processFiles
\* lie in 0..100, each is at least the one set before it, and once results
\* are set the last value is 100.
C29_ProgressMonotone ==
    /\ progress \in 0..100
    /\ \A k \in DOMAIN progressLog : progressLog[k] \in 0..100
    /\ \A k \in 1..(Len(progressLog) - 1) : progressLog[k] <= progressLog[k + 1]
    /\ results # NoRecord =>
          progressLog # <<>> /\ progressLog[Len(progressLog)] = 100

\* the run of processFiles has ended, by returning or by an exception that
\* nothing caught, and no timer of it is pending
C27_RunEnded == pc \in {"idle", "rejected"} /\ timers = 0

\* C27: no run of processFiles leaves the application on the analyzing
\* screen: once a run started from the upload screen has ended and its timer
\* has fired, the screen is 'results' and results are set.
C27_RunCompletes ==
    C27_RunEnded /\ progressLog # <<>> /\ screen # "upload" =>
        screen = "results" /\ results # NoRecord

\* the analysis loop of the run has ended: it ran to its end, or an
\* exception left it
C21_LoopEnded ==
    uploadedFiles = <<>> /\ pc \in {"results", "results2", "rejected"}

\* the record of one file, analysed on its own
C21_RecordOf(file) ==
    LET record == AnalyzeEntry(file)
    IN IF ScoreThrows(record) THEN record
       ELSE record @@ [qualityScore |-> calculateQualityScore(record)]

\* C21: when the analysis loop has ended, analysisResults holds one record
\* per file of fileList, in the order of the files; the record of a file that
\* fails to parse is an error record, and every record is the one its file
\* gives when analysed alone.
C21_OneRecordPerFile ==
    C21_LoopEnded =>
        /\ Len(analysisResults) = Len(fileList)
        /\ \A k \in DOMAIN analysisResults :
              /\ analysisResults[k].filename = fileList[k].name
              /\ analysisResults[k] = C21_RecordOf(fileList[k])
              /\ "message" \in DOMAIN FileContent(fileList[k].content) <=>
                    IsErrorRecord(analysisResults[k])

C28_ScreenOrder ==
    {<<"upload", "analyzing">>, <<"analyzing", "results">>, <<"results", "upload">>}

\* C28: on the results screen results are set; screen changes only from
\* upload to analyzing, from analyzing to results and from results to upload;
\* the return to the upload screen (resetApp) leaves results null, progress 0
\* and the step text empty; and off the analyzing screen no timer is pending
\* that could bring the results screen back.
C28_ScreenAndResults ==
    /\ [](screen = "results" => results # NoRecord)
    /\ [](screen # "analyzing" => timers = 0)
    /\ [][/\ screen' # screen => <<screen, screen'>> \in C28_ScreenOrder
          /\ screen' = "upload" =>
                results' = NoRecord /\ progress' = 0 /\ currentStep' = ""]_vars

\* a run has finished and resetApp has returned to the upload screen
C28_Witness ==
    screen = "upload" /\ progressLog # <<>> /\ Len(analysisResults) > 0

\* a defined number of the interval [0, 100]
C30_InRange(v) == ~IsNaN(v) /\ 0 <= v.num /\ v.num <= 100 * v.den

\* C30: on the results screen every value of the quality bars and of the
\* radar chart is a defined number between 0 and 100.
C30_DisplayedValues ==
    screen = "results" /\ results # NoRecord =>
        /\ \A k \in DOMAIN qualityBarData(results.summary) :
              C30_InRange(qualityBarData(results.summary)[k])
        /\ \A k \in DOMAIN radarData(results.summary) :
              C30_InRange(radarData(results.summary)[k])

\* the edges of the record that have the same source and target as e
C23_SameEdge(record, e) ==
    IF IsSuccessRecord(record)
    THEN {d \in Dependencies(record) : d.from = e.from /\ d.to = e.to}
    ELSE {}

\* C23: the step that builds the summary leaves every record as it was: the
\* records handed to setResults, with their edges and counts, functionTypes
\* and name lists, are the records the analysis loop produced.
C23_RecordsUnchanged ==
    [][pc = "results2" /\ pc' = "idle" =>
          /\ analysisResults' = analysisResults
          /\ results'.files = analysisResults]_vars

\* results are set, and an edge of the merged graph occurs in two files, its
\* merged count being larger than its count in either
C23_Witness ==
    /\ results # NoRecord
    /\ \E e \in results.summary.dependencyAnalysis.dependencies :
          \E i, j \in DOMAIN results.files :
              /\ i < j
              /\ C23_SameEdge(results.files[i], e) # {}
              /\ C23_SameEdge(results.files[j], e) # {}
              /\ \A d \in C23_SameEdge(results.files[i], e) : d.count < e.count

====
